---- MODULE Spec2Model ----
(***************************************************************************)
(* Model of the playlist view-model (PlaylistManager) and of the metadata  *)
(* cache (MetadataManager) of albus-status-bar-music.                      *)
(*                                                                         *)
(* Strings are TLA+ strings; wherever the code looks inside a string       *)
(* (startsWith, substring, split, toLowerCase, includes) the string is     *)
(* taken apart into its characters by Chars and the code's string          *)
(* operation is carried out on the character sequence.                     *)
(***************************************************************************)
EXTENDS Integers, Sequences, FiniteSets, TLC

VARIABLES
    vault,            \* app.vault.getFiles(): the audio files of the vault, in the host's order
    noteCount,        \* number of further (non-audio) files app.vault.getFiles() returns
    settings,         \* PluginSettings: musicFolderPath, favorites, playbackMode, metadata
    fullPlaylist,     \* PlaylistManager.fullPlaylist
    viewPlaylist,     \* PlaylistManager.viewPlaylist
    updated,          \* the list the last onPlaylistUpdate event carried
    playlists,        \* PlaylistManager.playlists: name -> tracks
    currentTrack,     \* PlaylistManager.currentTrack (NULL for null/undefined)
    currentCategory,  \* PlaylistManager.currentCategory
    searchQuery,      \* PlaylistManager.searchQuery
    scans,            \* loadFullPlaylist calls suspended between two batches, oldest timer first
    rescanTimers,     \* pending setTimeout(() => loadFullPlaylist(), 500) of handleFileChange
    cache,            \* MetadataManager.cache: path -> TrackMetadata
    fileTags,         \* what the audio files of the vault contain: path -> tags
    dataJson,         \* the metadata map in the plugin's data.json
    onSaveNeeded,     \* MetadataManager.onSaveNeeded (NULL while none is registered)
    isDirty,          \* MetadataManager.isDirty
    saveTimeout,      \* MetadataManager.saveTimeout: handle of the last save timer
    saveTimers,       \* pending save timers, oldest first: ticks until each is due
    saveBurst,        \* history of scheduleSave: calls of the burst, ticks since the
                      \* last call, runs of the save callback since the burst began
    refreshes,        \* refreshAllMetadata calls in progress
    reextractTimers,  \* pending re-extraction timers of MetadataManager.handleFileChange
    reextracting,     \* re-extractions of handleFileChange waiting for the file's bytes
    isInitialized,    \* MetadataManager.isInitialized
    totalTracks,      \* MetadataManager.totalTracks
    processedTracks,  \* MetadataManager.processedTracks
    ret,              \* what playNext / playPrevious returned, when it ran last
    parse,            \* the call of MetadataParser.parseID3v2 in progress
    cleanedUp         \* MetadataManager.cleanup() has run and initializeFromSettings
                      \* has not run since

NULL == "<null>"              \* null where the other values are strings
UNDEFINED == "<undefined>"    \* a property that is not set
NO_TRACK == [null |-> TRUE]   \* null / undefined where the other values are tracks
NOT_PARSING == [pc |-> "idle"]
NO_METADATA == [null |-> TRUE] \* no entry where the other values are TrackMetadata

\* the default texts of the source (unknown title, unknown artist, unknown
\* album), which it writes in Chinese, as ASCII strings
UNKNOWN_TITLE == "?title"
UNKNOWN_ARTIST == "?artist"
UNKNOWN_ALBUM == "?album"

(***************************************************************************)
(* Strings and their characters                                            *)
(***************************************************************************)
F1 == "m/A/1.mp3"     \* in the subfolder A of the music folder
F2 == "m/2.mp3"       \* directly in the music folder
F3 == "n/3.mp3"       \* outside the music folder
F4 == "m/all/4.mp3"   \* in a subfolder of the music folder that is named all
F5 == "m2/5.mp3"      \* in the folder m2, a sibling of the music folder
NOTE == "m/n.md"      \* a note in the music folder, not an audio file

Chars(s) ==
    CASE s = "" -> <<>>
      [] s = "m" -> <<"m">>
      [] s = "A" -> <<"A">>
      [] s = "a" -> <<"a">>
      [] s = "1" -> <<"1">>
      [] s = "2" -> <<"2">>
      [] s = "3" -> <<"3">>
      [] s = "all" -> <<"a", "l", "l">>
      [] s = "favorite" -> <<"f", "a", "v", "o", "r", "i", "t", "e">>
      [] s = "m/A" -> <<"m", "/", "A">>
      [] s = "m/A/1.mp3" -> <<"m", "/", "A", "/", "1", ".", "m", "p", "3">>
      [] s = "m/2.mp3" -> <<"m", "/", "2", ".", "m", "p", "3">>
      [] s = "n/3.mp3" -> <<"n", "/", "3", ".", "m", "p", "3">>
      [] s = "1.mp3" -> <<"1", ".", "m", "p", "3">>
      [] s = "2.mp3" -> <<"2", ".", "m", "p", "3">>
      [] s = "3.mp3" -> <<"3", ".", "m", "p", "3">>
      [] s = "mp3" -> <<"m", "p", "3">>
      [] s = "flac" -> <<"f", "l", "a", "c">>
      [] s = "wav" -> <<"w", "a", "v">>
      [] s = "m4a" -> <<"m", "4", "a">>
      [] s = "ogg" -> <<"o", "g", "g">>
      [] s = "Ana" -> <<"A", "n", "a">>
      [] s = "Bo" -> <<"B", "o">>
      [] s = "Lp" -> <<"L", "p">>
      [] s = "?title" -> <<"?", "t", "i", "t", "l", "e">>
      [] s = "?artist" -> <<"?", "a", "r", "t", "i", "s", "t">>
      [] s = "?album" -> <<"?", "a", "l", "b", "u", "m">>
      [] s = "blob:" -> <<"b", "l", "o", "b", ":">>
      [] s = "data:image/" -> <<"d", "a", "t", "a", ":", "i", "m", "a", "g", "e", "/">>
      [] s = "http" -> <<"h", "t", "t", "p">>
      [] s = "base64" -> <<"b", "a", "s", "e", "6", "4">>
      [] s = "data:image/x;base64,QUJD" -> <<"d", "a", "t", "a", ":", "i", "m", "a", "g", "e", "/", "x", ";", "b", "a", "s", "e", "6", "4", ",", "Q", "U", "J", "D">>
      [] s = "data:image/x;base64,!!" -> <<"d", "a", "t", "a", ":", "i", "m", "a", "g", "e", "/", "x", ";", "b", "a", "s", "e", "6", "4", ",", "!", "!">>
      [] s = "blob:7" -> <<"b", "l", "o", "b", ":", "7">>
      [] s = "la la" -> <<"l", "a", " ", "l", "a">>
      [] s = " A " -> <<" ", "A", " ">>
      [] s = "x" -> <<"x">>
      [] s = "data:" -> <<"d", "a", "t", "a", ":">>
      [] s = ";base64," -> <<";", "b", "a", "s", "e", "6", "4", ",">>
      [] s = "QUJD" -> <<"Q", "U", "J", "D">>
      [] s = "m/n.md" -> <<"m", "/", "n", ".", "m", "d">>
      [] s = "Q0JB" -> <<"Q", "0", "J", "B">>
      [] s = "data:image/x;base64,Q0JB" -> <<"d", "a", "t", "a", ":", "i", "m", "a", "g", "e", "/", "x", ";", "b", "a", "s", "e", "6", "4", ",", "Q", "0", "J", "B">>
      [] s = "http://c" -> <<"h", "t", "t", "p", ":", "/", "/", "c">>
      [] s = " Lp " -> <<" ", "L", "p", " ">>
      [] s = "lp" -> <<"l", "p">>
      [] s = "m/all/4.mp3" -> <<"m", "/", "a", "l", "l", "/", "4", ".", "m", "p", "3">>
      [] s = "4.mp3" -> <<"4", ".", "m", "p", "3">>
      [] s = "4" -> <<"4">>
      [] s = "m/all" -> <<"m", "/", "a", "l", "l">>
      [] s = "m2/5.mp3" -> <<"m", "2", "/", "5", ".", "m", "p", "3">>
      [] s = "5.mp3" -> <<"5", ".", "m", "p", "3">>
      [] s = "5" -> <<"5">>
      [] s = "m2" -> <<"m", "2">>
      [] s = " " -> <<" ">>

KnownStrings ==
    {"", "m", "A", "a", "1", "2",
     "3", "all", "favorite", "m/A", "m/A/1.mp3", "m/2.mp3",
     "n/3.mp3", "1.mp3", "2.mp3", "3.mp3", "mp3", "flac",
     "wav", "m4a", "ogg", "Ana", "Bo", "Lp",
     "?title", "?artist", "?album", "blob:", "data:image/", "http",
     "base64", "data:image/x;base64,QUJD", "data:image/x;base64,!!", "blob:7", "la la", " A ",
     "x", "data:", ";base64,", "QUJD", "m/n.md", "Q0JB",
     "data:image/x;base64,Q0JB", "http://c", " Lp ", "lp", "m/all/4.mp3", "4.mp3",
     "4", "m/all", "m2/5.mp3", "5.mp3", "5", "m2",
     " "}

Str(cs) == CHOOSE s \in KnownStrings : Chars(s) = cs

startsWith(cs, prefix) ==
    /\ Len(prefix) <= Len(cs)
    /\ SubSeq(cs, 1, Len(prefix)) = prefix

substring(cs, start) ==
    IF start >= Len(cs) THEN <<>> ELSE SubSeq(cs, start + 1, Len(cs))

\* String.substring(0, end)
prefixOf(cs, end) == IF end >= Len(cs) THEN cs ELSE SubSeq(cs, 1, end)

RECURSIVE split(_, _)
split(cs, sep) ==
    IF \A k \in 1..Len(cs) : cs[k] # sep
    THEN <<cs>>
    ELSE LET k == CHOOSE j \in 1..Len(cs) :
                      cs[j] = sep /\ \A h \in 1..(j - 1) : cs[h] # sep
         IN  <<SubSeq(cs, 1, k - 1)>> \o split(SubSeq(cs, k + 1, Len(cs)), sep)

nonEmptyParts(parts) == SelectSeq(parts, LAMBDA part : part # <<>>)

toLowerCaseChar(c) ==
    CASE c = "A" -> "a"
      [] c = "B" -> "b"
      [] c = "L" -> "l"
      [] c = "M" -> "m"
      [] c = "P" -> "p"
      [] OTHER   -> c

toLowerCase(cs) == [k \in 1..Len(cs) |-> toLowerCaseChar(cs[k])]

includes(cs, sub) ==
    \E k \in 0..(Len(cs) - Len(sub)) : SubSeq(cs, k + 1, k + Len(sub)) = sub

\* normalizePath: every backslash becomes a slash
normalizePath(cs) == [k \in 1..Len(cs) |-> IF cs[k] = "\\" THEN "/" ELSE cs[k]]

\* TFile.name: the last path segment
fileName(path) ==
    LET parts == split(Chars(path), "/") IN parts[Len(parts)]

\* TFile.basename: the name without its last extension
fileBasename(path) ==
    LET name == fileName(path)
        parts == split(name, ".")
    IN  IF Len(parts) = 1 THEN Str(name)
        ELSE Str(SubSeq(name, 1, Len(name) - Len(parts[Len(parts)]) - 1))

SUPPORTED_AUDIO_FORMATS == {"flac", "mp3", "wav", "m4a", "ogg"}

\* any file is accepted as an audio file
acceptsAnyFile(name) == TRUE

isSupportedAudioFile(name) ==
    LET parts == split(name, ".")
        ext == toLowerCase(parts[Len(parts)])
    IN  \E fmt \in SUPPORTED_AUDIO_FORMATS : Chars(fmt) = ext

trim(cs) ==
    LET solid == {k \in 1..Len(cs) : cs[k] # " "}
    IN  IF solid = {} THEN <<>>
        ELSE SubSeq(cs, CHOOSE k \in solid : \A h \in solid : k <= h,
                        CHOOSE k \in solid : \A h \in solid : h <= k)

(***************************************************************************)
(* Bounds                                                                  *)
(***************************************************************************)
VaultFiles == {F1, F2, F3, F4, F5}   \* the audio files that can exist
ChangingFiles == {F1, F2}            \* the files that are created and deleted
MaxScans == 2                        \* loadFullPlaylist calls suspended at once
MaxTimers == 2                       \* pending rescan timers
Categories == {"all", "favorite", "A"}
Queries == {"", " Lp "}             \* what the user types into the search box
PlaybackModes == {"loop", "shuffle"}  \* "single" is treated like "loop" throughout

DelayTicks == 2                      \* ticks of the clock in one 500 ms timer delay
MaxRefreshes == 1                    \* refreshAllMetadata calls in progress at once
MaxReextracts == 1                   \* re-extractions of file events scheduled or running

batchSize == 50
NoteCounts == {0, batchSize}

(***************************************************************************)
(* MetadataManager: covers, hydration, lookup                              *)
(***************************************************************************)
COVER_DATA == "data:image/x;base64,QUJD"     \* a data URL with a base64 payload
COVER_BAD == "data:image/x;base64,!!"        \* a data URL whose payload is no base64
COVER_BLOB == "blob:7"                       \* a blob URL of an earlier session
COVER_HTTP == "http://c"                     \* the URL of a picture on the web

Base64Chars ==
    {"A", "B", "C", "D", "J", "Q", "U", "a", "b", "c", "0", "1", "+", "/", "="}

\* atob(text) returns (TRUE) or throws (FALSE)
atobSucceeds(text) ==
    /\ \A k \in 1..Len(text) : text[k] \in Base64Chars
    /\ Len(text) % 4 # 1

isFalsy(value) == value \in {NULL, UNDEFINED, ""}

\* a validation that lets every cover through
validateNothing(cover) == IF isFalsy(cover) THEN NULL ELSE cover

validateAndPreserveCover(cover) ==
    IF isFalsy(cover) THEN NULL
    ELSE IF startsWith(Chars(cover), Chars("blob:")) THEN NULL
    ELSE IF /\ startsWith(Chars(cover), Chars("data:image/"))
            /\ Len(split(Chars(cover), ",")) = 2
            /\ includes(split(Chars(cover), ",")[1], Chars("base64"))
         THEN IF atobSucceeds(prefixOf(split(Chars(cover), ",")[2], 10))
              THEN cover ELSE NULL
    ELSE IF startsWith(Chars(cover), Chars("http")) THEN cover
    ELSE NULL

\* a hydration that copies every field but the cover
hydratedMetadataAsIs(metadata) ==
    [title |-> metadata.title,
     artist |-> metadata.artist,
     album |-> metadata.album,
     cover |-> validateAndPreserveCover(metadata.cover),
     lyrics |-> metadata.lyrics]

\* the entry initializeFromSettings builds from a persisted one
hydratedMetadata(metadata) ==
    [title |-> metadata.title,
     artist |-> metadata.artist,
     album |-> IF isFalsy(metadata.album) THEN UNKNOWN_ALBUM ELSE metadata.album,
     cover |-> validateAndPreserveCover(metadata.cover),
     lyrics |-> IF isFalsy(metadata.lyrics) THEN NULL ELSE metadata.lyrics]

EmptyMetadataMap == [path \in VaultFiles |-> NO_METADATA]

initializeFromSettings(persisted) ==
    [path \in VaultFiles |->
        IF persisted[path] = NO_METADATA THEN NO_METADATA
        ELSE hydratedMetadata(persisted[path])]

\* Object.keys(settings.metadata).length, and the number of processedTracks++
persistedCount(persisted) ==
    Cardinality({path \in VaultFiles : persisted[path] # NO_METADATA})

getMetadata(filePath) == cache[filePath]

isFullyInitialized == isInitialized

getInitializationProgress ==
    [current |-> processedTracks,
     total |-> totalTracks,
     percentage |-> IF totalTracks > 0 THEN (processedTracks * 100) \div totalTracks
                    ELSE 100]

HasMetadata(filePath) == cache[filePath] # NO_METADATA

(***************************************************************************)
(* MetadataParser: the tags of a file and what extractMetadata makes of    *)
(* them                                                                    *)
(***************************************************************************)
\* an embedded picture of three bytes
SMALL_PICTURE == [format |-> "x", dataLength |-> 3, base64 |-> "QUJD"]

\* what music-metadata finds in a file: parses is FALSE where parseBuffer throws
TagsFull ==
    [parses |-> TRUE, title |-> "Ana", artist |-> "Bo", album |-> "Lp",
     pictures |-> <<SMALL_PICTURE>>, lyrics |-> "la la"]

TagsPlain ==
    [parses |-> TRUE, title |-> "Bo", artist |-> UNDEFINED, album |-> UNDEFINED,
     pictures |-> <<>>, lyrics |-> "la la"]

TagsCorrupt ==
    [parses |-> FALSE, title |-> UNDEFINED, artist |-> UNDEFINED, album |-> UNDEFINED,
     pictures |-> <<>>, lyrics |-> UNDEFINED]

\* another embedded picture of three bytes, and a file that carries it
NEW_PICTURE == [format |-> "x", dataLength |-> 3, base64 |-> "Q0JB"]

COVER_NEW == "data:image/x;base64,Q0JB"

TagsRepainted ==
    [parses |-> TRUE, title |-> "Ana", artist |-> "Bo", album |-> "Lp",
     pictures |-> <<NEW_PICTURE>>, lyrics |-> "la la"]

\* a file with a picture and no lyrics
TagsSilent ==
    [parses |-> TRUE, title |-> "Ana", artist |-> "Bo", album |-> "Lp",
     pictures |-> <<SMALL_PICTURE>>, lyrics |-> UNDEFINED]

DefaultTags ==
    [path \in VaultFiles |->
        CASE path = F1 -> TagsFull [] path = F2 -> TagsCorrupt [] OTHER -> TagsPlain]

SwappedTags ==
    [path \in VaultFiles |->
        CASE path = F1 -> TagsPlain [] path = F2 -> TagsFull [] OTHER -> TagsCorrupt]

\* a vault whose first file has a picture and no lyrics
SilentTags ==
    [path \in VaultFiles |->
        CASE path = F1 -> TagsSilent [] path = F2 -> TagsFull [] OTHER -> TagsPlain]

TagAssignments == {DefaultTags, SwappedTags, SilentTags}

DEFAULT_METADATA ==
    [title |-> UNKNOWN_TITLE, artist |-> UNKNOWN_ARTIST, album |-> UNKNOWN_ALBUM,
     cover |-> NULL, lyrics |-> UNDEFINED]

isValidCoverData(cover) ==
    /\ ~isFalsy(cover)
    /\ \/ startsWith(Chars(cover), Chars("data:image/"))
       \/ startsWith(Chars(cover), Chars("http"))

\* String.indexOf(c): -1 where c does not occur
indexOf(cs, c) ==
    IF \A k \in 1..Len(cs) : cs[k] # c THEN -1
    ELSE (CHOOSE k \in 1..Len(cs) : cs[k] = c /\ \A h \in 1..(k - 1) : cs[h] # c) - 1

isSamePictureData(picture, existingCover) ==
    LET cs == Chars(existingCover)
        base64Data == substring(cs, indexOf(cs, ",") + 1)
        expectedLength == (picture.dataLength * 4 + 2) \div 3
        difference == IF Len(base64Data) >= expectedLength
                      THEN Len(base64Data) - expectedLength
                      ELSE expectedLength - Len(base64Data)
    IN  /\ startsWith(cs, Chars("data:"))
        /\ startsWith(cs, Chars("data:image/") \o Chars(picture.format))
        /\ difference * 10 <= expectedLength

createDataUrl(picture) ==
    Str(Chars("data:image/") \o Chars(picture.format) \o Chars(";base64,")
        \o Chars(picture.base64))

\* an extractCover that takes a picture of up to 5 MB as it is where
\* compressImage has failed
extractCoverLenient(pictures, existingCover, compressed) ==
    LET kept == IF isFalsy(existingCover) THEN NULL ELSE existingCover
    IN  IF isValidCoverData(existingCover) THEN existingCover
        ELSE IF pictures = <<>> THEN kept
        ELSE IF pictures[1].dataLength <= 5120 * 1024
             THEN IF compressed # NULL THEN compressed ELSE createDataUrl(pictures[1])
        ELSE kept

\* compressed: what compressImage returned (NULL where it failed)
extractCover(pictures, existingCover, compressed) ==
    LET kept == IF isFalsy(existingCover) THEN NULL ELSE existingCover
    IN  IF isValidCoverData(existingCover) THEN existingCover
        ELSE IF pictures = <<>> THEN kept
        ELSE IF ~isFalsy(existingCover) /\ isSamePictureData(pictures[1], existingCover)
             THEN existingCover
        ELSE IF pictures[1].dataLength <= 500 * 1024 THEN createDataUrl(pictures[1])
        ELSE IF pictures[1].dataLength <= 2048 * 1024
             THEN IF compressed # NULL THEN compressed ELSE createDataUrl(pictures[1])
        ELSE IF pictures[1].dataLength <= 5120 * 1024
             THEN IF compressed # NULL THEN compressed ELSE kept
        ELSE kept

extractLyrics(tags) ==
    IF isFalsy(tags.lyrics) \/ trim(Chars(tags.lyrics)) = <<>> THEN NULL
    ELSE Str(trim(Chars(tags.lyrics)))

\* MetadataParser.extractMetadata(arrayBuffer, existingCover)
extractMetadata(tags, existingCover, compressed) ==
    IF ~tags.parses THEN DEFAULT_METADATA
    ELSE [title |-> IF isFalsy(tags.title) THEN UNKNOWN_TITLE ELSE tags.title,
          artist |-> IF isFalsy(tags.artist) THEN UNKNOWN_ARTIST ELSE tags.artist,
          album |-> IF isFalsy(tags.album) THEN UNKNOWN_ALBUM ELSE tags.album,
          cover |-> extractCover(tags.pictures, existingCover, compressed),
          lyrics |-> extractLyrics(tags)]

\* the results compressImage can have for the picture of a file
CompressResults(tags) ==
    IF tags.pictures # <<>> /\ tags.pictures[1].dataLength > 500 * 1024
    THEN {NULL, COVER_DATA} ELSE {NULL}

(***************************************************************************)
(* MetadataManager: refreshAllMetadata                                     *)
(***************************************************************************)
\* shouldReprocessFile without its test of the cover
shouldReprocessFileIgnoringCover(existingMetadata) ==
    \/ existingMetadata = NO_METADATA
    \/ isFalsy(existingMetadata.title)
    \/ isFalsy(existingMetadata.artist)
    \/ isFalsy(existingMetadata.lyrics)

shouldReprocessFile(existingMetadata) ==
    \/ existingMetadata = NO_METADATA
    \/ isFalsy(existingMetadata.title)
    \/ isFalsy(existingMetadata.artist)
    \/ isFalsy(existingMetadata.cover)
    \/ isFalsy(existingMetadata.lyrics)

\* the files refreshAllMetadata enumerates under the folder it is given
musicFiles(allFiles, folderPath) ==
    SelectSeq(allFiles, LAMBDA path :
        /\ startsWith(Chars(path), normalizePath(Chars(folderPath)))
        /\ isSupportedAudioFile(fileName(path)))

\* processFileIfNeeded up to its first wait for the file's bytes
processing(path, existingData, cached) ==
    IF existingData[path] # NO_METADATA /\ ~shouldReprocessFile(existingData[path])
    THEN "reuse"
    ELSE IF cached # NO_METADATA /\ ~shouldReprocessFile(cached) THEN "skip"
    ELSE "extract"

reusedMetadata(existingMetadata) ==
    [title |-> existingMetadata.title,
     artist |-> existingMetadata.artist,
     album |-> IF isFalsy(existingMetadata.album) THEN UNKNOWN_ALBUM
               ELSE existingMetadata.album,
     cover |-> validateAndPreserveCover(existingMetadata.cover),
     lyrics |-> IF isFalsy(existingMetadata.lyrics) THEN NULL
                ELSE existingMetadata.lyrics]

coverOf(metadata) == IF metadata = NO_METADATA THEN UNDEFINED ELSE metadata.cover

\* a cover looked up without regard to the path: the first persisted one
existingCoverShared(path, existingData, cached) ==
    validateAndPreserveCover(
        IF \E other \in VaultFiles : ~isFalsy(coverOf(existingData[other]))
        THEN coverOf(existingData[CHOOSE other \in VaultFiles :
                                     ~isFalsy(coverOf(existingData[other]))])
        ELSE coverOf(cached))

\* the cover processFileIfNeeded hands to the extraction
existingCoverOf(path, existingData, cached) ==
    validateAndPreserveCover(
        IF ~isFalsy(coverOf(existingData[path])) THEN coverOf(existingData[path])
        ELSE coverOf(cached))

\* a catch that stores nothing
defaultMetadataDropped(path, existingData) == NO_METADATA

\* the entry the catch of processFileIfNeeded stores
defaultMetadata(path, existingData) ==
    [title |-> fileBasename(path), artist |-> UNKNOWN_ARTIST, album |-> UNKNOWN_ALBUM,
     cover |-> validateAndPreserveCover(coverOf(existingData[path])),
     lyrics |-> NULL]

(***************************************************************************)
(* PlaylistManager: scan                                                   *)
(***************************************************************************)
isBlankFolder(folder) == folder = "" \/ trim(Chars(folder)) = <<>>

\* the files a scan collects from its snapshot of app.vault.getFiles()
collectedFiles(allFiles, musicFolderPath) ==
    SelectSeq(allFiles, LAMBDA path :
        /\ isSupportedAudioFile(fileName(path))
        /\ startsWith(Chars(path), musicFolderPath))

pathParts(path, musicFolderPath) ==
    nonEmptyParts(split(substring(Chars(path), Len(musicFolderPath)), "/"))

defaultTrackMetadata(path) ==
    [title |-> fileBasename(path), artist |-> UNKNOWN_ARTIST,
     album |-> UNKNOWN_ALBUM, cover |-> NULL, lyrics |-> UNDEFINED]

makeTrack(path, index) ==
    [id |-> index,
     name |-> fileBasename(path),
     path |-> path,
     metadata |-> IF HasMetadata(path) THEN getMetadata(path)
                  ELSE defaultTrackMetadata(path)]

makeFullPlaylist(fileArray) ==
    [k \in 1..Len(fileArray) |-> makeTrack(fileArray[k], k - 1)]

hasPlaylist(pls, name) == \E k \in 1..Len(pls) : pls[k].name = name

\* this.playlists after one track was offered to it
addToPlaylists(pls, track, musicFolderPath) ==
    LET parts == pathParts(track.path, musicFolderPath) IN
    IF Len(parts) > 1
    THEN LET playlistName == Str(parts[1])
             withName == IF hasPlaylist(pls, playlistName) THEN pls
                         ELSE Append(pls, [name |-> playlistName, tracks |-> <<>>])
         IN  [k \in 1..Len(withName) |->
                 IF withName[k].name = playlistName
                    /\ \A h \in 1..Len(withName[k].tracks) :
                           withName[k].tracks[h].path # track.path
                 THEN [withName[k] EXCEPT !.tracks = Append(@, track)]
                 ELSE withName[k]]
    ELSE pls

RECURSIVE groupTracks(_, _, _)
groupTracks(pls, tracks, musicFolderPath) ==
    IF tracks = <<>> THEN pls
    ELSE groupTracks(addToPlaylists(pls, Head(tracks), musicFolderPath),
                     Tail(tracks), musicFolderPath)

\* a scan that forgets the category it found
restoredCategoryForgotten(savedCategory, pls) == "all"

restoredCategory(savedCategory, pls) ==
    IF savedCategory # "" /\ savedCategory # "all" /\ savedCategory # "favorite"
    THEN IF hasPlaylist(pls, savedCategory) THEN savedCategory ELSE "all"
    ELSE savedCategory

(***************************************************************************)
(* PlaylistManager: view derivation                                        *)
(***************************************************************************)
getPlaylistTracks(pls, playlistName) ==
    IF hasPlaylist(pls, playlistName)
    THEN pls[CHOOSE k \in 1..Len(pls) : pls[k].name = playlistName].tracks
    ELSE <<>>

inList(list, path) == \E k \in 1..Len(list) : list[k].path = path

isFavoritePath(favorites, path) == \E k \in 1..Len(favorites) : favorites[k] = path

categorySource(full, pls, category, favorites) ==
    CASE category = "all" -> full
      [] category = "favorite" ->
            SelectSeq(full, LAMBDA track : isFavoritePath(favorites, track.path))
      [] OTHER ->
            IF Len(getPlaylistTracks(pls, category)) > 0
            THEN getPlaylistTracks(pls, category)
            ELSE SelectSeq(full, LAMBDA track :
                     startsWith(Chars(track.path), Chars(category)))

\* a search that looks at the title only
matchesTitleOnly(track, query) ==
    includes(toLowerCase(Chars(IF ~isFalsy(track.metadata.title)
                               THEN track.metadata.title ELSE track.name)),
             Chars(query))

matchesSearch(track, query) ==
    LET title == IF ~isFalsy(track.metadata.title) THEN track.metadata.title
                 ELSE track.name
        artist == IF ~isFalsy(track.metadata.artist) THEN track.metadata.artist ELSE ""
        album == IF ~isFalsy(track.metadata.album) THEN track.metadata.album ELSE ""
    IN  \/ includes(toLowerCase(Chars(title)), Chars(query))
        \/ includes(toLowerCase(Chars(artist)), Chars(query))
        \/ includes(toLowerCase(Chars(album)), Chars(query))

searchFilter(source, query) ==
    IF query # "" THEN SelectSeq(source, LAMBDA track : matchesSearch(track, query))
    ELSE source

\* a shuffle that loses the last element of a list of several
shufflesLosingOne(list) ==
    LET n == IF Len(list) > 1 THEN Len(list) - 1 ELSE Len(list)
        perms == {p \in [1..n -> 1..n] : \A a, b \in 1..n : p[a] = p[b] => a = b}
    IN  {[k \in 1..n |-> list[p[k]]] : p \in perms}

\* the orders [...list].sort(() => Math.random() - 0.5) can produce
shuffles(list) ==
    LET n == Len(list)
        perms == {p \in [1..n -> 1..n] : \A a, b \in 1..n : p[a] = p[b] => a = b}
    IN  {[k \in 1..n |-> list[p[k]]] : p \in perms}

viewOrders(source, playbackMode) ==
    IF playbackMode = "shuffle" THEN shuffles(source) ELSE {source}

needsFallback(full, track) ==
    track = NO_TRACK \/ ~inList(full, track.path)

firstOf(list) == IF list = <<>> THEN NO_TRACK ELSE list[1]

\* updateView on the given fields: sets viewPlaylist and currentTrack and
\* emits onPlaylistUpdate
updateView(full, pls, category, query, favorites, playbackMode) ==
    \E view \in viewOrders(searchFilter(categorySource(full, pls, category, favorites),
                                         query), playbackMode) :
        /\ viewPlaylist' = view
        /\ updated' = view
        /\ currentTrack' = IF needsFallback(full, currentTrack)
                           THEN firstOf(view) ELSE currentTrack

(***************************************************************************)
(* Initial state                                                           *)
(***************************************************************************)
\* persisted metadata of an earlier session: a complete entry for F1 and an
\* entry without cover and lyrics for F2
SavedMetadata ==
    [path \in VaultFiles |->
        CASE path = F1 -> [title |-> "Ana", artist |-> "Bo", album |-> "Lp",
                           cover |-> COVER_DATA, lyrics |-> "la la"]
          [] path = F2 -> [title |-> "Bo", artist |-> "Ana", album |-> "",
                           cover |-> NULL, lyrics |-> UNDEFINED]
          [] OTHER -> NO_METADATA]

\* persisted metadata with every title, artist and lyrics but no usable cover:
\* none for F1, a blob URL of an earlier session for F2
CoverlessMetadata ==
    [path \in VaultFiles |->
        CASE path = F1 -> [title |-> "Ana", artist |-> "Bo", album |-> "Lp",
                           cover |-> NULL, lyrics |-> "la la"]
          [] path = F2 -> [title |-> "Bo", artist |-> "Ana", album |-> "Lp",
                           cover |-> COVER_BLOB, lyrics |-> "la la"]
          [] OTHER -> NO_METADATA]

\* persisted metadata not written by this revision: a data URL whose payload
\* is no base64 for F1, no title and the URL of a picture on the web for F2
ForeignMetadata ==
    [path \in VaultFiles |->
        CASE path = F1 -> [title |-> "Ana", artist |-> "Bo", album |-> "Lp",
                           cover |-> COVER_BAD, lyrics |-> "la la"]
          [] path = F2 -> [title |-> UNDEFINED, artist |-> "Ana", album |-> "Lp",
                           cover |-> COVER_HTTP, lyrics |-> "la la"]
          [] OTHER -> NO_METADATA]

PersistedMaps == {EmptyMetadataMap, SavedMetadata, CoverlessMetadata, ForeignMetadata}

playlistVars ==
    <<fullPlaylist, viewPlaylist, updated, playlists, currentTrack, currentCategory,
      searchQuery, scans, rescanTimers>>

progressVars == <<isInitialized, totalTracks, processedTracks>>

managerVars ==
    <<fileTags, dataJson, onSaveNeeded, isDirty, saveTimeout, saveTimers,
      saveBurst, refreshes, reextractTimers, reextracting, progressVars>>

vars ==
    <<vault, noteCount, parse, cleanedUp, settings, fullPlaylist, viewPlaylist, updated, playlists,
      currentTrack, currentCategory, searchQuery, scans, rescanTimers, cache,
      ret, managerVars>>

Init ==
    /\ vault = <<F3, F1, F2>>
    /\ noteCount \in NoteCounts
    /\ parse = NOT_PARSING
    /\ cleanedUp = FALSE
    /\ settings \in {[musicFolderPath |-> "m", favorites |-> <<>>,
                       playbackMode |-> "loop", metadata |-> md] :
                          md \in PersistedMaps}
    /\ fullPlaylist = <<>>
    /\ viewPlaylist = <<>>
    /\ updated = <<>>
    /\ playlists = <<>>
    /\ currentTrack = NO_TRACK
    /\ currentCategory = "all"
    /\ searchQuery = ""
    /\ scans = <<>>
    /\ rescanTimers = 0
    /\ cache = EmptyMetadataMap
    /\ ret = NO_TRACK
    /\ fileTags \in TagAssignments
    /\ dataJson = settings.metadata
    /\ onSaveNeeded \in {NULL, "callback"}
    /\ isDirty = FALSE
    /\ saveTimeout = NULL
    /\ saveTimers = <<>>
    /\ saveBurst = [calls |-> 0, sinceCall |-> 0, saves |-> 0]
    /\ refreshes = <<>>
    /\ reextractTimers = <<>>
    /\ reextracting = <<>>
    /\ isInitialized = FALSE
    /\ totalTracks = 0
    /\ processedTracks = 0

(***************************************************************************)
(* PlaylistManager: loadFullPlaylist                                       *)
(***************************************************************************)
\* the end of loadFullPlaylist, after the last batch
finishScan(scan, pls) ==
    LET fileArray == collectedFiles(scan.allFiles, scan.musicFolderPath)
        full == makeFullPlaylist(fileArray)
        grouped == groupTracks(pls, full, scan.musicFolderPath)
        category == restoredCategory(scan.savedCategory, grouped)
    IN  /\ fullPlaylist' = full
        /\ playlists' = grouped
        /\ currentCategory' = category
        /\ updateView(full, grouped, category, searchQuery,
                      settings.favorites, settings.playbackMode)

\* loadFullPlaylist up to its first suspension or, without one, to its end
startScan ==
    LET scan == [savedCategory |-> currentCategory,
                 musicFolderPath |-> normalizePath(Chars(settings.musicFolderPath)),
                 allFiles |-> vault,
                 total |-> Len(vault) + noteCount,
                 i |-> 0]
    IN  IF isBlankFolder(settings.musicFolderPath)
        THEN /\ fullPlaylist' = <<>>
             /\ playlists' = <<>>
             /\ updateView(<<>>, <<>>, currentCategory, searchQuery,
                           settings.favorites, settings.playbackMode)
             /\ UNCHANGED <<currentCategory, scans>>
        ELSE IF scan.i + batchSize < scan.total
        THEN /\ Len(scans) < MaxScans
             /\ fullPlaylist' = <<>>
             /\ playlists' = <<>>
             /\ scans' = Append(scans, scan)
             /\ UNCHANGED <<viewPlaylist, updated, currentTrack, currentCategory>>
        ELSE /\ finishScan(scan, <<>>)
             /\ UNCHANGED scans

\* the host calls loadFullPlaylist()
LoadFullPlaylist ==
    /\ startScan
    /\ ret' = NO_TRACK
    /\ UNCHANGED managerVars
    /\ UNCHANGED <<vault, noteCount, parse, cleanedUp, settings, searchQuery, rescanTimers, cache>>

\* a timer set by handleFileChange fires and calls loadFullPlaylist()
RescanTimerFires ==
    /\ rescanTimers > 0
    /\ rescanTimers' = rescanTimers - 1
    /\ startScan
    /\ ret' = NO_TRACK
    /\ UNCHANGED managerVars
    /\ UNCHANGED <<vault, noteCount, parse, cleanedUp, settings, searchQuery, cache>>

\* the 10 ms timer of the oldest suspended loadFullPlaylist fires
ResumeScan ==
    /\ scans # <<>>
    /\ LET scan == [Head(scans) EXCEPT !.i = @ + batchSize] IN
        IF scan.i + batchSize < scan.total
        THEN /\ scans' = Append(Tail(scans), scan)
             /\ UNCHANGED <<fullPlaylist, viewPlaylist, updated, playlists, currentTrack,
                            currentCategory>>
        ELSE /\ scans' = Tail(scans)
             /\ finishScan(scan, playlists)
    /\ ret' = NO_TRACK
    /\ UNCHANGED managerVars
    /\ UNCHANGED <<vault, noteCount, parse, cleanedUp, settings, searchQuery, rescanTimers, cache>>

(***************************************************************************)
(* PlaylistManager: the synchronous operations                             *)
(***************************************************************************)
SetPlaybackMode(mode) ==
    /\ settings' = [settings EXCEPT !.playbackMode = mode]
    /\ updateView(fullPlaylist, playlists, currentCategory, searchQuery,
                  settings.favorites, mode)
    /\ ret' = NO_TRACK
    /\ UNCHANGED managerVars
    /\ UNCHANGED <<vault, noteCount, parse, cleanedUp, fullPlaylist, playlists, currentCategory,
                   searchQuery, scans, rescanTimers, cache>>

SetCategory(category) ==
    /\ currentCategory' = category
    /\ updateView(fullPlaylist, playlists, category, searchQuery,
                  settings.favorites, settings.playbackMode)
    /\ ret' = NO_TRACK
    /\ UNCHANGED managerVars
    /\ UNCHANGED <<vault, noteCount, parse, cleanedUp, settings, fullPlaylist, playlists,
                   searchQuery, scans, rescanTimers, cache>>

SetSearchQuery(query) ==
    /\ searchQuery' = Str(toLowerCase(trim(Chars(query))))
    /\ updateView(fullPlaylist, playlists, currentCategory, searchQuery',
                  settings.favorites, settings.playbackMode)
    /\ ret' = NO_TRACK
    /\ UNCHANGED managerVars
    /\ UNCHANGED <<vault, noteCount, parse, cleanedUp, settings, fullPlaylist, playlists,
                   currentCategory, scans, rescanTimers, cache>>

\* loadTrack(track), called by the host for a track of the list it shows
LoadTrack(track) ==
    /\ currentTrack' = track
    /\ ret' = NO_TRACK
    /\ UNCHANGED managerVars
    /\ UNCHANGED <<vault, noteCount, parse, cleanedUp, settings, fullPlaylist, viewPlaylist, updated, playlists,
                   currentCategory, searchQuery, scans, rescanTimers, cache>>

\* Array.findIndex(t => t.id === id), 0-based, -1 when there is none
findIndexById(list, id) ==
    IF \E k \in 1..Len(list) : list[k].id = id
    THEN (CHOOSE k \in 1..Len(list) :
              list[k].id = id /\ \A h \in 1..(k - 1) : list[h].id # id) - 1
    ELSE -1

currentIndex ==
    IF currentTrack # NO_TRACK THEN findIndexById(viewPlaylist, currentTrack.id)
    ELSE -1

PlayNext ==
    /\ IF Len(viewPlaylist) = 0
       THEN /\ ret' = NO_TRACK
            /\ UNCHANGED currentTrack
       ELSE LET nextIndex == (currentIndex + 1) % Len(viewPlaylist)
                nextTrack == viewPlaylist[nextIndex + 1]
            IN  /\ currentTrack' = nextTrack
                /\ ret' = nextTrack
    /\ UNCHANGED managerVars
    /\ UNCHANGED <<vault, noteCount, parse, cleanedUp, settings, fullPlaylist, viewPlaylist, updated, playlists,
                   currentCategory, searchQuery, scans, rescanTimers, cache>>

PlayPrevious ==
    /\ IF Len(viewPlaylist) = 0
       THEN /\ ret' = NO_TRACK
            /\ UNCHANGED currentTrack
       ELSE LET prevIndex == IF currentIndex = -1 THEN Len(viewPlaylist) - 1
                             ELSE (currentIndex - 1 + Len(viewPlaylist))
                                      % Len(viewPlaylist)
                prevTrack == viewPlaylist[prevIndex + 1]
            IN  /\ currentTrack' = prevTrack
                /\ ret' = prevTrack
    /\ UNCHANGED managerVars
    /\ UNCHANGED <<vault, noteCount, parse, cleanedUp, settings, fullPlaylist, viewPlaylist, updated, playlists,
                   currentCategory, searchQuery, scans, rescanTimers, cache>>

removePath(list, path) == SelectSeq(list, LAMBDA other : other # path)

\* a toggle that pushes the path whether or not it is a favorite
toggledFavoritesPushing(favorites, path) == Append(favorites, path)

\* favorites after indexOf / splice(favIndex, 1) / push
toggledFavorites(favorites, path) ==
    IF isFavoritePath(favorites, path)
    THEN LET favIndex == CHOOSE k \in 1..Len(favorites) :
                             favorites[k] = path /\ \A h \in 1..(k - 1) : favorites[h] # path
         IN  SubSeq(favorites, 1, favIndex - 1)
                 \o SubSeq(favorites, favIndex + 1, Len(favorites))
    ELSE Append(favorites, path)

\* a toggleFavorite that leaves the view as it is
ToggleFavoriteKeepingView(track) ==
    LET targetTrack == IF track # NO_TRACK THEN track ELSE currentTrack IN
    /\ IF targetTrack = NO_TRACK
       THEN UNCHANGED settings
       ELSE settings' = [settings EXCEPT
                            !.favorites = toggledFavorites(@, targetTrack.path)]
    /\ ret' = NO_TRACK
    /\ UNCHANGED managerVars
    /\ UNCHANGED <<vault, noteCount, parse, cleanedUp, fullPlaylist, viewPlaylist, updated, playlists, currentTrack,
                   currentCategory, searchQuery, scans, rescanTimers, cache>>

\* toggleFavorite(track?), track = NO_TRACK for a call without argument
ToggleFavorite(track) ==
    LET targetTrack == IF track # NO_TRACK THEN track ELSE currentTrack IN
    /\ IF targetTrack = NO_TRACK
       THEN UNCHANGED <<settings, viewPlaylist, updated, currentTrack>>
       ELSE /\ settings' = [settings EXCEPT
                                !.favorites = toggledFavorites(@, targetTrack.path)]
            /\ IF currentCategory = "favorite"
               THEN updateView(fullPlaylist, playlists, currentCategory, searchQuery,
                               settings'.favorites, settings.playbackMode)
               ELSE UNCHANGED <<viewPlaylist, updated, currentTrack>>
    /\ ret' = NO_TRACK
    /\ UNCHANGED managerVars
    /\ UNCHANGED <<vault, noteCount, parse, cleanedUp, fullPlaylist, playlists, currentCategory,
                   searchQuery, scans, rescanTimers, cache>>

\* PlaylistManager.handleFileChange(path): the fields it sets
handleFileChange(path) ==
    LET isInMusicFolder ==
            /\ settings.musicFolderPath # ""
            /\ startsWith(Chars(path), normalizePath(Chars(settings.musicFolderPath)))
    IN  IF isInMusicFolder
        THEN /\ rescanTimers < MaxTimers
             /\ settings' = [settings EXCEPT !.metadata[path] = NO_METADATA]
             /\ rescanTimers' = rescanTimers + 1
        ELSE UNCHANGED <<settings, rescanTimers>>

\* a file appears in the vault; the "create" handler of registerFileEvents runs
CreateFile(path) ==
    /\ ~\E k \in 1..Len(vault) : vault[k] = path
    /\ vault' = Append(vault, path)
    /\ handleFileChange(path)
    /\ ret' = NO_TRACK
    /\ UNCHANGED managerVars
    /\ UNCHANGED <<noteCount, parse, cleanedUp, fullPlaylist, viewPlaylist, updated, playlists, currentTrack,
                   currentCategory, searchQuery, scans, cache>>

\* a file leaves the vault; the "delete" handler of registerFileEvents runs
DeleteFile(path) ==
    /\ \E k \in 1..Len(vault) : vault[k] = path
    /\ vault' = removePath(vault, path)
    /\ handleFileChange(path)
    /\ ret' = NO_TRACK
    /\ UNCHANGED managerVars
    /\ UNCHANGED <<noteCount, parse, cleanedUp, fullPlaylist, viewPlaylist, updated, playlists, currentTrack,
                   currentCategory, searchQuery, scans, cache>>

\* PlaylistManager.initializeMetadata(settings)
InitializeMetadata ==
    /\ cache' = initializeFromSettings(settings.metadata)
    /\ totalTracks' = persistedCount(settings.metadata)
    /\ processedTracks' = persistedCount(settings.metadata)
    /\ isInitialized' = TRUE
    /\ cleanedUp' = FALSE
    /\ ret' = NO_TRACK
    /\ UNCHANGED <<fileTags, dataJson, onSaveNeeded, isDirty, saveTimeout, saveTimers,
                   saveBurst, refreshes, reextractTimers, reextracting>>
    /\ UNCHANGED <<vault, noteCount, parse, settings, fullPlaylist, viewPlaylist, updated, playlists,
                   currentTrack, currentCategory, searchQuery, scans, rescanTimers>>

TracksShown ==
    {viewPlaylist[k] : k \in 1..Len(viewPlaylist)}

Next ==
    \/ LoadFullPlaylist
    \/ RescanTimerFires
    \/ \E category \in Categories : SetCategory(category)
    \/ \E query \in Queries : SetSearchQuery(query)
    \/ \E track \in TracksShown : LoadTrack(track)
    \/ PlayNext
    \/ PlayPrevious
    \/ \E track \in TracksShown \cup {NO_TRACK} : ToggleFavorite(track)
    \/ \E path \in ChangingFiles : CreateFile(path)
    \/ \E path \in ChangingFiles : DeleteFile(path)
    \/ InitializeMetadata

\* a vault of fewer files than one batch, the plugin as main.ts builds it
InitPlugin ==
    /\ Init
    /\ noteCount = 0
    /\ settings.metadata = SavedMetadata
    /\ fileTags = DefaultTags
    /\ onSaveNeeded = NULL

Spec == InitPlugin /\ [][Next]_vars

(***************************************************************************)
(* Scans of a vault with more files than one batch: loadFullPlaylist is    *)
(* suspended between its batches and other handlers run in between.        *)
(***************************************************************************)
NextScan ==
    \/ LoadFullPlaylist
    \/ RescanTimerFires
    \/ ResumeScan
    \/ \E mode \in PlaybackModes : SetPlaybackMode(mode)
    \/ \E category \in Categories : SetCategory(category)
    \/ \E query \in Queries : SetSearchQuery(query)
    \/ \E track \in TracksShown \cup {NO_TRACK} : ToggleFavorite(track)
    \/ \E path \in {F1} : CreateFile(path)
    \/ \E path \in {F1} : DeleteFile(path)

InitScan ==
    /\ Init
    /\ noteCount = batchSize
    /\ settings.metadata = EmptyMetadataMap
    /\ fileTags = DefaultTags
    /\ onSaveNeeded = NULL

SpecScan == InitScan /\ [][NextScan]_vars

(***************************************************************************)
(* File events of the vault and the rescans they schedule.                 *)
(***************************************************************************)
NextEvents ==
    \/ LoadFullPlaylist
    \/ RescanTimerFires
    \/ \E path \in {F1, F2, F3} : CreateFile(path)
    \/ \E path \in {F1, F2, F3} : DeleteFile(path)
    \/ InitializeMetadata

SpecEvents == InitPlugin /\ [][NextEvents]_vars

(***************************************************************************)
(* The views of a vault that gets a subfolder named like a built-in        *)
(* category.                                                               *)
(***************************************************************************)
NextView ==
    \/ LoadFullPlaylist
    \/ RescanTimerFires
    \/ CreateFile(F4)
    \/ \E mode \in PlaybackModes : SetPlaybackMode(mode)
    \/ \E category \in Categories : SetCategory(category)
    \/ \E query \in Queries : SetSearchQuery(query)
    \/ \E track \in TracksShown \cup {NO_TRACK} : ToggleFavorite(track)
    \/ InitializeMetadata

SpecView == InitPlugin /\ [][NextView]_vars

(***************************************************************************)
(* MetadataManager: the debounced save                                     *)
(***************************************************************************)
\* clearTimeout(this.saveTimeout): the handle is the timer created last
clearTimeout(timers) ==
    IF timers = <<>> THEN <<>> ELSE SubSeq(timers, 1, Len(timers) - 1)

\* the history of scheduleSave after one more call
calledBurst ==
    LET sameBurst == saveBurst.calls > 0 /\ saveBurst.sinceCall < DelayTicks
    IN  [calls |-> IF ~sameBurst THEN 1
                   ELSE IF saveBurst.calls < 2 THEN saveBurst.calls + 1
                   ELSE saveBurst.calls,
         sinceCall |-> 0,
         saves |-> IF sameBurst THEN saveBurst.saves ELSE 0]

\* scheduleSave without its clearTimeout
scheduleSaveNoClear ==
    /\ saveTimers' = Append(saveTimers, DelayTicks)
    /\ saveTimeout' = "timer"
    /\ saveBurst' = calledBurst

\* MetadataManager.scheduleSave()
scheduleSave ==
    /\ saveTimers' = Append(IF saveTimeout # NULL THEN clearTimeout(saveTimers)
                            ELSE saveTimers, DelayTicks)
    /\ saveTimeout' = "timer"
    /\ saveBurst' = calledBurst

\* the callback of the save timer runs
SaveTimerFires ==
    /\ saveTimers # <<>>
    /\ Head(saveTimers) = 0
    /\ saveTimers' = Tail(saveTimers)
    /\ isDirty' = FALSE
    /\ saveBurst' = IF onSaveNeeded # NULL
                    THEN [saveBurst EXCEPT !.saves = @ + 1] ELSE saveBurst
    /\ ret' = NO_TRACK
    /\ UNCHANGED <<vault, noteCount, parse, cleanedUp, settings, playlistVars, progressVars, cache, fileTags, dataJson,
                   onSaveNeeded, saveTimeout, refreshes, reextractTimers, reextracting>>

\* the clock advances by one tick; a timer that is due runs first
Tick ==
    /\ \A j \in 1..Len(saveTimers) : saveTimers[j] > 0
    /\ \A j \in 1..Len(reextractTimers) : reextractTimers[j].remaining > 0
    /\ saveTimers' = [j \in 1..Len(saveTimers) |-> saveTimers[j] - 1]
    /\ reextractTimers' = [j \in 1..Len(reextractTimers) |->
                              [reextractTimers[j] EXCEPT !.remaining = @ - 1]]
    /\ saveBurst' = [saveBurst EXCEPT !.sinceCall = IF @ < DelayTicks THEN @ + 1 ELSE @]
    /\ ret' = NO_TRACK
    /\ UNCHANGED <<vault, noteCount, parse, cleanedUp, settings, playlistVars, progressVars, cache, fileTags, dataJson,
                   onSaveNeeded, isDirty, saveTimeout, refreshes, reextracting>>

\* an export that leaves the covers out
exportWithoutCovers ==
    [path \in VaultFiles |->
        IF cache[path] = NO_METADATA THEN NO_METADATA
        ELSE [cache[path] EXCEPT !.cover = NULL]]

exportToSettings == [path \in VaultFiles |-> cache[path]]

\* the plugin's saveSettings()
SaveSettings ==
    /\ settings' = IF isDirty THEN [settings EXCEPT !.metadata = exportToSettings]
                   ELSE settings
    /\ dataJson' = settings'.metadata
    /\ ret' = NO_TRACK
    /\ UNCHANGED <<vault, noteCount, parse, cleanedUp, playlistVars, progressVars, cache, fileTags, onSaveNeeded, isDirty,
                   saveTimeout, saveTimers, saveBurst, refreshes, reextractTimers,
                   reextracting>>

(***************************************************************************)
(* MetadataManager: refreshAllMetadata, step by step                       *)
(***************************************************************************)
removeAt(seq, k) == SubSeq(seq, 1, k - 1) \o SubSeq(seq, k + 1, Len(seq))

inVault(path) == \E j \in 1..Len(vault) : vault[j] = path

\* refreshAllMetadata([settings.musicFolderPath]) up to its wait for data.json
RefreshAllMetadata ==
    /\ Len(refreshes) < MaxRefreshes
    /\ IF isBlankFolder(settings.musicFolderPath) THEN UNCHANGED refreshes
       ELSE refreshes' = Append(refreshes,
                [pc |-> "loading", existingData |-> EmptyMetadataMap, pending |-> {}])
    /\ ret' = NO_TRACK
    /\ UNCHANGED <<vault, noteCount, parse, cleanedUp, settings, playlistVars, progressVars, cache, fileTags, dataJson,
                   onSaveNeeded, isDirty, saveTimeout, saveTimers, saveBurst,
                   reextractTimers, reextracting>>

\* refresh k goes on with the extractions still in flight; after the last one
\* Promise.allSettled resolves and refreshAllMetadata ends with scheduleSave()
continueRefresh(k, refresh) ==
    IF refresh.pending = {}
    THEN /\ refreshes' = removeAt(refreshes, k)
         /\ scheduleSave
    ELSE /\ refreshes' = [refreshes EXCEPT ![k] = refresh]
         /\ UNCHANGED <<saveTimeout, saveTimers, saveBurst>>

\* data.json is read (or not: readOk = FALSE); the files are enumerated and
\* processFileIfNeeded runs for each of them up to the read of its bytes
RefreshLoaded(k, readOk) ==
    /\ k \in 1..Len(refreshes)
    /\ refreshes[k].pc = "loading"
    /\ LET existingData == IF readOk THEN dataJson ELSE EmptyMetadataMap
           files == musicFiles(vault, settings.musicFolderPath)
           paths == {files[j] : j \in 1..Len(files)}
           extracted == {path \in paths :
                            processing(path, existingData, cache[path]) = "extract"}
       IN  /\ isDirty' = TRUE
           /\ cache' = [path \in VaultFiles |->
                           IF /\ path \in paths
                              /\ processing(path, existingData, cache[path]) = "reuse"
                           THEN reusedMetadata(existingData[path])
                           ELSE cache[path]]
           /\ continueRefresh(k,
                  [pc |-> "extracting", existingData |-> existingData,
                   pending |-> {[path |-> path,
                                 existingCover |->
                                     existingCoverOf(path, existingData, cache[path])] :
                                path \in extracted}])
    /\ ret' = NO_TRACK
    /\ UNCHANGED <<vault, noteCount, parse, cleanedUp, settings, playlistVars, progressVars, fileTags, dataJson,
                   onSaveNeeded, reextractTimers, reextracting>>

\* extractFileMetadata of one file returns what the parser made of the bytes
ExtractionReturns(k, job, compressed) ==
    /\ k \in 1..Len(refreshes)
    /\ job \in refreshes[k].pending
    /\ inVault(job.path)
    /\ compressed \in CompressResults(fileTags[job.path])
    /\ cache' = [cache EXCEPT ![job.path] =
                    extractMetadata(fileTags[job.path], job.existingCover, compressed)]
    /\ continueRefresh(k, [refreshes[k] EXCEPT !.pending = @ \ {job}])
    /\ ret' = NO_TRACK
    /\ UNCHANGED <<vault, noteCount, parse, cleanedUp, settings, playlistVars, progressVars, fileTags, dataJson,
                   onSaveNeeded, isDirty, reextractTimers, reextracting>>

\* readBinary throws; the catch of processFileIfNeeded stores the default entry
ExtractionFails(k, job) ==
    /\ k \in 1..Len(refreshes)
    /\ job \in refreshes[k].pending
    /\ cache' = [cache EXCEPT ![job.path] =
                    defaultMetadata(job.path, refreshes[k].existingData)]
    /\ continueRefresh(k, [refreshes[k] EXCEPT !.pending = @ \ {job}])
    /\ ret' = NO_TRACK
    /\ UNCHANGED <<vault, noteCount, parse, cleanedUp, settings, playlistVars, progressVars, fileTags, dataJson,
                   onSaveNeeded, isDirty, reextractTimers, reextracting>>

PendingJobs == UNION {refreshes[k].pending : k \in 1..Len(refreshes)}

NextRefresh ==
    \/ RefreshAllMetadata
    \/ \E k \in 1..Len(refreshes), readOk \in BOOLEAN : RefreshLoaded(k, readOk)
    \/ \E k \in 1..Len(refreshes), job \in PendingJobs, compressed \in {NULL, COVER_DATA} :
          ExtractionReturns(k, job, compressed)
    \/ \E k \in 1..Len(refreshes), job \in PendingJobs : ExtractionFails(k, job)
    \/ SaveSettings
    \/ refreshes = <<>> /\ InitializeMetadata

InitRefresh == Init /\ noteCount = 0 /\ fileTags \in {DefaultTags, SwappedTags}

SpecRefresh == InitRefresh /\ [][NextRefresh]_vars

\* refreshes of a vault in which a file never gets lyrics, nothing persisted yet
InitRepeat ==
    /\ Init
    /\ noteCount = 0
    /\ settings.metadata = EmptyMetadataMap
    /\ fileTags = SilentTags

SpecRepeat == InitRepeat /\ [][NextRefresh]_vars

(***************************************************************************)
(* MetadataManager: handleFileChange                                       *)
(***************************************************************************)
ChangeTypes == {"create", "modify", "delete"}

\* a file of the vault is created, modified or deleted and the host calls
\* MetadataManager.handleFileChange(filePath, type)
MetadataFileChange(filePath, type) ==
    /\ IF type = "create" THEN ~inVault(filePath) ELSE inVault(filePath)
    /\ vault' = CASE type = "create" -> Append(vault, filePath)
                  [] type = "delete" -> removePath(vault, filePath)
                  [] OTHER -> vault
    /\ IF ~isSupportedAudioFile(fileName(filePath))
       THEN UNCHANGED <<cache, isDirty, saveTimeout, saveTimers, saveBurst,
                        reextractTimers>>
       ELSE /\ isDirty' = TRUE
            /\ IF type = "delete"
               THEN /\ cache' = [cache EXCEPT ![filePath] = NO_METADATA]
                    /\ scheduleSave
                    /\ UNCHANGED reextractTimers
               ELSE /\ Len(reextractTimers) + Len(reextracting) < MaxReextracts
                    /\ reextractTimers' = Append(reextractTimers,
                           [path |-> filePath, remaining |-> DelayTicks])
                    /\ UNCHANGED <<cache, saveTimeout, saveTimers, saveBurst>>
    /\ ret' = NO_TRACK
    /\ UNCHANGED <<noteCount, parse, cleanedUp, settings, playlistVars, progressVars, fileTags, dataJson, onSaveNeeded,
                   refreshes, reextracting>>

\* the timer of a create / modify event runs, up to the read of the file's bytes
ReextractTimerFires ==
    /\ reextractTimers # <<>>
    /\ Head(reextractTimers).remaining = 0
    /\ reextractTimers' = Tail(reextractTimers)
    /\ reextracting' =
          IF inVault(Head(reextractTimers).path)
          THEN Append(reextracting,
                      [path |-> Head(reextractTimers).path,
                       existingCover |-> coverOf(cache[Head(reextractTimers).path])])
          ELSE reextracting
    /\ ret' = NO_TRACK
    /\ UNCHANGED <<vault, noteCount, parse, cleanedUp, settings, playlistVars, progressVars, cache, fileTags, dataJson,
                   onSaveNeeded, isDirty, saveTimeout, saveTimers, saveBurst, refreshes>>

\* the re-extraction of a changed file returns
ReextractionReturns(j, compressed) ==
    /\ j \in 1..Len(reextracting)
    /\ inVault(reextracting[j].path)
    /\ compressed \in CompressResults(fileTags[reextracting[j].path])
    /\ cache' = [cache EXCEPT ![reextracting[j].path] =
                    extractMetadata(fileTags[reextracting[j].path],
                                    reextracting[j].existingCover, compressed)]
    /\ scheduleSave
    /\ reextracting' = removeAt(reextracting, j)
    /\ ret' = NO_TRACK
    /\ UNCHANGED <<vault, noteCount, parse, cleanedUp, settings, playlistVars, progressVars, fileTags, dataJson,
                   onSaveNeeded, isDirty, refreshes, reextractTimers>>

\* readBinary throws in the re-extraction of a changed file: logged, nothing stored
ReextractionFails(j) ==
    /\ j \in 1..Len(reextracting)
    /\ reextracting' = removeAt(reextracting, j)
    /\ ret' = NO_TRACK
    /\ UNCHANGED <<vault, noteCount, parse, cleanedUp, settings, playlistVars, progressVars, cache, fileTags, dataJson,
                   onSaveNeeded, isDirty, saveTimeout, saveTimers, saveBurst, refreshes,
                   reextractTimers>>

NextMeta ==
    \/ RefreshAllMetadata
    \/ \E k \in 1..Len(refreshes), readOk \in BOOLEAN : RefreshLoaded(k, readOk)
    \/ \E k \in 1..Len(refreshes), job \in PendingJobs, compressed \in {NULL, COVER_DATA} :
          ExtractionReturns(k, job, compressed)
    \/ \E k \in 1..Len(refreshes), job \in PendingJobs : ExtractionFails(k, job)
    \/ SaveTimerFires
    \/ Tick
    \/ \E filePath \in {F1}, type \in ChangeTypes : MetadataFileChange(filePath, type)
    \/ ReextractTimerFires
    \/ \E j \in 1..Len(reextracting), compressed \in {NULL, COVER_DATA} :
          ReextractionReturns(j, compressed)
    \/ \E j \in 1..Len(reextracting) : ReextractionFails(j)

InitMeta ==
    /\ Init
    /\ noteCount = 0
    /\ settings.metadata = SavedMetadata
    /\ fileTags = DefaultTags
    /\ onSaveNeeded = "callback"

SpecMeta == InitMeta /\ [][NextMeta]_vars

\* MetadataManager.cleanup(): the last save timer is cleared and the cache
\* emptied; timers of file events and refreshes under way are not touched
Cleanup ==
    /\ saveTimers' = IF saveTimeout # NULL THEN clearTimeout(saveTimers) ELSE saveTimers
    /\ cache' = EmptyMetadataMap
    /\ cleanedUp' = TRUE
    /\ ret' = NO_TRACK
    /\ UNCHANGED <<vault, noteCount, parse, settings, playlistVars, progressVars, fileTags,
                   dataJson, onSaveNeeded, isDirty, saveTimeout, saveBurst, refreshes,
                   reextractTimers, reextracting>>

\* the manager at work, cleaned up at any moment and initialized again; once
\* cleaned up it is called no more until it is initialized again, and only the
\* timers and the promises that were pending go on
NextCleanup ==
    \/ ~cleanedUp /\ RefreshAllMetadata
    \/ ~cleanedUp /\ \E filePath \in {F1}, type \in ChangeTypes : MetadataFileChange(filePath, type)
    \/ \E k \in 1..Len(refreshes), readOk \in BOOLEAN : RefreshLoaded(k, readOk)
    \/ \E k \in 1..Len(refreshes), job \in PendingJobs, compressed \in {NULL, COVER_DATA} :
          ExtractionReturns(k, job, compressed)
    \/ \E k \in 1..Len(refreshes), job \in PendingJobs : ExtractionFails(k, job)
    \/ SaveTimerFires
    \/ Tick
    \/ ReextractTimerFires
    \/ \E j \in 1..Len(reextracting), compressed \in {NULL, COVER_DATA} :
          ReextractionReturns(j, compressed)
    \/ \E j \in 1..Len(reextracting) : ReextractionFails(j)
    \/ Cleanup
    \/ InitializeMetadata

InitCleanup == InitMeta

SpecCleanup == InitCleanup /\ [][NextCleanup]_vars

(***************************************************************************)
(* The plugin's clearMetadataCache                                         *)
(***************************************************************************)
\* a reset of a track's metadata that keeps its cover
clearedMetadataKeepingCover(track) ==
    [title |-> track.name, artist |-> UNKNOWN_ARTIST, album |-> UNKNOWN_ALBUM,
     cover |-> track.metadata.cover, lyrics |-> UNDEFINED]

\* the metadata PlaylistManager.clearMetadataCache gives a track
clearedMetadata(track) ==
    [title |-> track.name, artist |-> UNKNOWN_ARTIST, album |-> UNKNOWN_ALBUM,
     cover |-> NULL, lyrics |-> UNDEFINED]

clearedTrack(track) == [track EXCEPT !.metadata = clearedMetadata(track)]

clearedTracks(tracks) == [k \in 1..Len(tracks) |-> clearedTrack(tracks[k])]

\* this.currentTrack after the tracks of fullPlaylist got their new metadata:
\* the current track is one of those objects and has the new metadata too, or
\* it is an object of an earlier scan and keeps what it had; an object that
\* differs from every track of fullPlaylist is not one of them
currentAfterClear ==
    IF currentTrack = NO_TRACK THEN {NO_TRACK}
    ELSE IF \E k \in 1..Len(fullPlaylist) : fullPlaylist[k] = currentTrack
    THEN {clearedTrack(currentTrack), currentTrack}
    ELSE {currentTrack}

\* StatusBarMusicPlugin.clearMetadataCache(): PlaylistManager.clearMetadataCache
\* (cleanup, initializeFromSettings of an empty map, the reset of the tracks,
\* updateView), then settings.metadata = {} and saveSettings()
ClearMetadataCache ==
    LET full == clearedTracks(fullPlaylist)
        pls == [k \in 1..Len(playlists) |->
                   [name |-> playlists[k].name,
                    tracks |-> clearedTracks(playlists[k].tracks)]]
        emptied == [settings EXCEPT !.metadata = EmptyMetadataMap]
    IN  /\ saveTimers' = IF saveTimeout # NULL THEN clearTimeout(saveTimers)
                         ELSE saveTimers
        /\ cache' = initializeFromSettings(EmptyMetadataMap)
        /\ totalTracks' = persistedCount(EmptyMetadataMap)
        /\ processedTracks' = persistedCount(EmptyMetadataMap)
        /\ isInitialized' = TRUE
        /\ cleanedUp' = FALSE
        /\ fullPlaylist' = full
        /\ playlists' = pls
        /\ \E current \in currentAfterClear :
           \E view \in viewOrders(searchFilter(categorySource(full, pls, currentCategory,
                                                              settings.favorites),
                                               searchQuery), settings.playbackMode) :
              /\ viewPlaylist' = view
              /\ updated' = view
              /\ currentTrack' = IF needsFallback(full, current)
                                 THEN firstOf(view) ELSE current
        /\ settings' = IF isDirty
                       THEN [emptied EXCEPT !.metadata = [path \in VaultFiles |-> cache'[path]]]
                       ELSE emptied
        /\ dataJson' = settings'.metadata
        /\ ret' = NO_TRACK
        /\ UNCHANGED <<vault, noteCount, parse, currentCategory, searchQuery, scans,
                       rescanTimers, fileTags, onSaveNeeded, isDirty, saveTimeout,
                       saveBurst, refreshes, reextractTimers, reextracting>>

\* a library that is scanned, browsed, refreshed (one refresh at a time) and
\* cleared
NextClear ==
    \/ LoadFullPlaylist
    \/ \E category \in Categories : SetCategory(category)
    \/ \E query \in Queries : SetSearchQuery(query)
    \/ \E track \in TracksShown : LoadTrack(track)
    \/ \E track \in TracksShown : ToggleFavorite(track)
    \/ InitializeMetadata
    \/ refreshes = <<>> /\ RefreshAllMetadata
    \/ \E k \in 1..Len(refreshes), readOk \in BOOLEAN : RefreshLoaded(k, readOk)
    \/ \E k \in 1..Len(refreshes), job \in PendingJobs, compressed \in {NULL, COVER_DATA} :
          ExtractionReturns(k, job, compressed)
    \/ ClearMetadataCache

InitClear == InitMeta

SpecClear == InitClear /\ [][NextClear]_vars

\* a timer that is due runs, the clock goes on, a read of data.json and an
\* extraction in progress come to an end (by returning or by throwing)
TimersFire ==
    /\ WF_vars(Tick)
    /\ WF_vars(SaveTimerFires)
    /\ WF_vars(ReextractTimerFires)
    /\ WF_vars(\E k \in 1..Len(refreshes), readOk \in BOOLEAN : RefreshLoaded(k, readOk))
    /\ WF_vars(\/ \E k \in 1..Len(refreshes), job \in PendingJobs,
                      compressed \in {NULL, COVER_DATA} : ExtractionReturns(k, job, compressed)
               \/ \E k \in 1..Len(refreshes), job \in PendingJobs : ExtractionFails(k, job))
    /\ WF_vars(\/ \E j \in 1..Len(reextracting), compressed \in {NULL, COVER_DATA} :
                      ReextractionReturns(j, compressed)
               \/ \E j \in 1..Len(reextracting) : ReextractionFails(j))

InitSave == InitMeta

SpecSave == InitSave /\ [][NextMeta]_vars /\ TimersFire

\* the bytes of an audio file of the vault are rewritten with other tags; the
\* host reports it afterwards with a modify event
WriteFile(path, tags) ==
    /\ inVault(path)
    /\ fileTags[path] # tags
    /\ fileTags' = [fileTags EXCEPT ![path] = tags]
    /\ ret' = NO_TRACK
    /\ UNCHANGED <<vault, noteCount, parse, cleanedUp, settings, playlistVars, progressVars, cache, dataJson,
                   onSaveNeeded, isDirty, saveTimeout, saveTimers, saveBurst, refreshes,
                   reextractTimers, reextracting>>

\* the file-change handler alone, on a hydrated cache
NextChange ==
    \/ InitializeMetadata
    \/ \E tags \in {TagsFull, TagsRepainted, TagsPlain} : WriteFile(F1, tags)
    \/ \E filePath \in {F1, NOTE}, type \in ChangeTypes :
          MetadataFileChange(filePath, type)
    \/ ReextractTimerFires
    \/ \E j \in 1..Len(reextracting), compressed \in {NULL, COVER_DATA} :
          ReextractionReturns(j, compressed)
    \/ \E j \in 1..Len(reextracting) : ReextractionFails(j)
    \/ SaveTimerFires
    \/ Tick

InitChange ==
    /\ Init
    /\ noteCount = 0
    /\ settings.metadata = SavedMetadata
    /\ fileTags = DefaultTags
    /\ onSaveNeeded = "callback"

SpecChange == InitChange /\ [][NextChange]_vars

(***************************************************************************)
(* The music folder: the settings tab changes it, the vault has a folder   *)
(* next to it whose name begins with the music folder's name.              *)
(***************************************************************************)
FolderInputs == {" ", "m"}           \* what the user types into the folder field

\* the onChange handler of the music folder field, which ends in saveSettings()
SetMusicFolder(value) ==
    /\ settings' =
          [settings EXCEPT
              !.musicFolderPath = Str(normalizePath(trim(Chars(value)))),
              !.metadata = IF isDirty THEN exportToSettings ELSE @]
    /\ dataJson' = settings'.metadata
    /\ ret' = NO_TRACK
    /\ UNCHANGED <<vault, noteCount, parse, cleanedUp, playlistVars, progressVars, cache, fileTags,
                   onSaveNeeded, isDirty, saveTimeout, saveTimers, saveBurst,
                   refreshes, reextractTimers, reextracting>>

\* refreshMetadata() while no music folder is configured
RefreshMetadataWithoutFolder ==
    /\ isBlankFolder(settings.musicFolderPath)
    /\ updated' = <<>>
    /\ ret' = NO_TRACK
    /\ UNCHANGED managerVars
    /\ UNCHANGED <<vault, noteCount, parse, cleanedUp, settings, fullPlaylist, viewPlaylist, playlists,
                   currentTrack, currentCategory, searchQuery, scans, rescanTimers,
                   cache>>

NextRoots ==
    \/ LoadFullPlaylist
    \/ RescanTimerFires
    \/ \E path \in {F4, F5} : CreateFile(path)
    \/ \E value \in FolderInputs : SetMusicFolder(value)
    \/ RefreshMetadataWithoutFolder
    \/ \E category \in Categories : SetCategory(category)

SpecRoots == InitPlugin /\ [][NextRoots]_vars

(***************************************************************************)
(* Consumers of the lists: getViewPlaylist(), getPlaylist() and            *)
(* getFullPlaylist() return this.viewPlaylist and this.fullPlaylist, the   *)
(* arrays of the model, and onPlaylistUpdate carries this.viewPlaylist.    *)
(***************************************************************************)
Mutations == {"reverse", "pop"}      \* what a consumer does to a list it was given

mutated(list, mutation) ==
    CASE mutation = "reverse" -> [k \in 1..Len(list) |-> list[Len(list) + 1 - k]]
      [] mutation = "pop" -> SubSeq(list, 1, Len(list) - 1)

\* updateView assigned this.fullPlaylist itself to this.viewPlaylist: the two
\* fields are one array (no scan is suspended between two batches here, so the
\* last updateView ran with the present category, query and mode)
viewIsFullPlaylist ==
    /\ currentCategory = "all"
    /\ searchQuery = ""
    /\ settings.playbackMode # "shuffle"

\* a consumer changes the array getViewPlaylist() or getPlaylist() returned,
\* or the one onPlaylistUpdate has just carried
ConsumerMutatesView(mutation) ==
    /\ scans = <<>>
    /\ viewPlaylist' = mutated(viewPlaylist, mutation)
    /\ fullPlaylist' = IF viewIsFullPlaylist THEN viewPlaylist' ELSE fullPlaylist
    /\ ret' = NO_TRACK
    /\ UNCHANGED managerVars
    /\ UNCHANGED <<vault, noteCount, parse, cleanedUp, settings, updated, playlists, currentTrack,
                   currentCategory, searchQuery, scans, rescanTimers, cache>>

\* a consumer changes the array getFullPlaylist() returned
ConsumerMutatesFull(mutation) ==
    /\ scans = <<>>
    /\ fullPlaylist' = mutated(fullPlaylist, mutation)
    /\ viewPlaylist' = IF viewIsFullPlaylist THEN fullPlaylist' ELSE viewPlaylist
    /\ ret' = NO_TRACK
    /\ UNCHANGED managerVars
    /\ UNCHANGED <<vault, noteCount, parse, cleanedUp, settings, updated, playlists, currentTrack,
                   currentCategory, searchQuery, scans, rescanTimers, cache>>

NextConsumer ==
    \/ LoadFullPlaylist
    \/ \E mode \in PlaybackModes : SetPlaybackMode(mode)
    \/ \E category \in Categories : SetCategory(category)
    \/ \E query \in Queries : SetSearchQuery(query)
    \/ \E mutation \in Mutations : ConsumerMutatesView(mutation)
    \/ \E mutation \in Mutations : ConsumerMutatesFull(mutation)

SpecConsumer == InitPlugin /\ [][NextConsumer]_vars

(***************************************************************************)
(* MetadataParser: the ID3v2 reader.  A file is described by what its tag  *)
(* holds; tagBytes writes the bytes of the file as ID3v2.3 and ID3v2.4     *)
(* define them, and the parser reads those bytes.                          *)
(***************************************************************************)
FrameIds == <<<<84, 73, 84, 50>>, <<84, 80, 69, 49>>, <<84, 65, 76, 66>>>>  \* TIT2 TPE1 TALB
FrameTexts == <<"Ana", "Bo", "Lp">>   \* the text of the k-th frame of a file
FrameSizes == {1, 300}               \* frame sizes: an encoding byte alone, or text and zeros
TagVersions == {3, 4}                \* ID3v2.3 and ID3v2.4
Paddings == {0, 12}                  \* zero bytes between the last frame and the end of the tag
AudioBytes == {<<>>, <<255, 251, 144, 0>>}   \* what follows the tag in the file

NO_FRAME == [null |-> TRUE]

\* a file whose tag holds the given text frames and picture, with a tag size
\* that leaves out the last `understated` bytes of the tag and without the last
\* `dropped` bytes of the file
tagFile(version, sizes, picture, padding, audio, understated, dropped) ==
    [magic |-> <<73, 68, 51>>, majorVersion |-> version, sizes |-> sizes,
     picture |-> picture, padding |-> padding, audio |-> audio,
     understated |-> understated, dropped |-> dropped]

\* well-formed files with text frames
TagFiles ==
    {tagFile(version, sizes, NO_FRAME, padding, audio, 0, 0) :
        version \in TagVersions,
        sizes \in UNION {[1..n -> FrameSizes] : n \in 1..Len(FrameIds)},
        padding \in Paddings,
        audio \in AudioBytes}

fromCharCode(code) ==
    CASE code = 65 -> "A" [] code = 66 -> "B" [] code = 76 -> "L"
      [] code = 97 -> "a" [] code = 110 -> "n" [] code = 111 -> "o" [] code = 112 -> "p"
      [] code = 32 -> " "

charCode(c) == CHOOSE code \in {65, 66, 76, 97, 110, 111, 112, 32} : fromCharCode(code) = c

\* the four bytes of a size field: 7 bits a byte (sync-safe) or 8 bits a byte
sizeBytes(n, syncSafe) ==
    IF syncSafe
    THEN <<(n \div 2097152) % 128, (n \div 16384) % 128, (n \div 128) % 128, n % 128>>
    ELSE <<(n \div 16777216) % 256, (n \div 65536) % 256, (n \div 256) % 256, n % 256>>

\* the k-th frame of a file: header, encoding byte 3 (UTF-8), text, zeros
frameBytes(file, k) ==
    LET size == file.sizes[k]
        kind == ((k - 1) % Len(FrameIds)) + 1
        text == Chars(FrameTexts[kind])
        data == [j \in 1..size |->
                    IF j = 1 THEN 3
                    ELSE IF j - 1 <= Len(text) THEN charCode(text[j - 1]) ELSE 0]
    IN  FrameIds[kind] \o sizeBytes(size, file.majorVersion >= 4) \o <<0, 0>> \o data

RECURSIVE framesBytes(_, _)
framesBytes(file, k) ==
    IF k > Len(file.sizes) THEN <<>> ELSE frameBytes(file, k) \o framesBytes(file, k + 1)

\* the picture frame of a file: header, encoding byte, MIME type and its zero,
\* picture type 3 (front cover), description and its terminator, image
pictureBytes(file) ==
    IF file.picture = NO_FRAME THEN <<>>
    ELSE LET picture == file.picture
             terminator == IF picture.encoding \in {1, 2} THEN <<0, 0>> ELSE <<0>>
             data == <<picture.encoding>> \o picture.mime \o <<0>> \o <<3>>
                        \o picture.description \o terminator \o picture.image
         IN  <<65, 80, 73, 67>> \o sizeBytes(Len(data), file.majorVersion >= 4)
                \o <<0, 0>> \o data

tagBytes(file) ==
    LET body == framesBytes(file, 1) \o pictureBytes(file)
                    \o [j \in 1..file.padding |-> 0]
        bytes == file.magic \o <<file.majorVersion, 0, 0>>
                    \o sizeBytes(Len(body) - file.understated, TRUE)
                    \o body \o file.audio
    IN  SubSeq(bytes, 1, Len(bytes) - file.dropped)

getUint8(dataView, offset) == dataView[offset + 1]

readSyncSafeInt(dataView, offset) ==
    ((getUint8(dataView, offset) * 128 + getUint8(dataView, offset + 1)) * 128
        + getUint8(dataView, offset + 2)) * 128 + getUint8(dataView, offset + 3)

\* a frame size read 7 bits a byte whatever the version of the tag
getUint32SyncSafe(dataView, offset) == readSyncSafeInt(dataView, offset)

getUint32(dataView, offset) ==
    ((getUint8(dataView, offset) * 256 + getUint8(dataView, offset + 1)) * 256
        + getUint8(dataView, offset + 2)) * 256 + getUint8(dataView, offset + 3)

\* /^[A-Z0-9]{4}$/ on the four characters of a frame id
isFrameId(id) == \A k \in 1..4 : id[k] \in 65..90 \/ id[k] \in 48..57

readFrame(dataView, offset) ==
    IF offset + 10 > Len(dataView) THEN NO_FRAME
    ELSE LET id == SubSeq(dataView, offset + 1, offset + 4)
             majorVersion == getUint8(dataView, 3)
             size == IF majorVersion >= 4 THEN readSyncSafeInt(dataView, offset + 4)
                     ELSE getUint32(dataView, offset + 4)
             flags == getUint8(dataView, offset + 8) * 256 + getUint8(dataView, offset + 9)
         IN  IF ~isFrameId(id) THEN NO_FRAME
             ELSE IF size = 0 \/ offset + 10 + size > Len(dataView) THEN NO_FRAME
             ELSE [id |-> id, size |-> size, flags |-> flags,
                   data |-> SubSeq(dataView, offset + 11, offset + 10 + size)]

\* parseTextFrame for the encodings 0 and 3 and bytes below 128; NULL for null
parseTextFrame(data) ==
    IF Len(data) < 1 THEN NULL
    ELSE LET encoding == data[1]
             textData == Tail(data)
             nulls == {k \in 1..Len(textData) : textData[k] = 0}
             cut == IF nulls = {} THEN textData
                    ELSE SubSeq(textData, 1, (CHOOSE k \in nulls : \A h \in nulls : k <= h) - 1)
             text == IF encoding \in {0, 3}
                     THEN trim([k \in 1..Len(cut) |-> fromCharCode(cut[k])])
                     ELSE <<>>
         IN  IF text = <<>> THEN NULL ELSE Str(text)

\* the byte at a 0-based index of a Uint8Array
byteAt(data, index) == data[index + 1]

\* the bytes parsePictureFrame skips as description at offset when every
\* description is scanned for one zero byte
descriptionBytesSingle(data, offset, encoding) ==
    LET zeros == {d \in 0..Len(data) : offset + d < Len(data) /\ byteAt(data, offset + d) = 0}
    IN  IF zeros # {} THEN (CHOOSE d \in zeros : \A e \in zeros : d <= e) + 1
        ELSE Len(data) - offset

\* the bytes parsePictureFrame skips as description at offset, terminator included
descriptionBytes(data, offset, encoding) ==
    IF encoding \in {0, 3}
    THEN LET zeros == {d \in 0..Len(data) :
                          offset + d < Len(data) /\ byteAt(data, offset + d) = 0}
         IN  IF zeros # {} THEN (CHOOSE d \in zeros : \A e \in zeros : d <= e) + 1
             ELSE Len(data) - offset
    ELSE IF encoding \in {1, 2}
    THEN LET pairs == {d \in 0..Len(data) :
                          /\ d % 2 = 0
                          /\ offset + d + 1 < Len(data)
                          /\ byteAt(data, offset + d) = 0
                          /\ byteAt(data, offset + d + 1) = 0}
         IN  IF pairs # {} THEN (CHOOSE d \in pairs : \A e \in pairs : d <= e) + 2
             ELSE ((Len(data) - offset) \div 2) * 2
    ELSE 0

isValidImageData(data) ==
    IF Len(data) < 4 THEN FALSE
    ELSE IF SubSeq(data, 1, 3) = <<255, 216, 255>> THEN TRUE
    ELSE IF SubSeq(data, 1, 4) = <<137, 80, 78, 71>> THEN Len(data) >= 8
    ELSE IF SubSeq(data, 1, 4) = <<71, 73, 70, 56>> THEN Len(data) >= 6
    ELSE IF SubSeq(data, 1, 2) = <<66, 77>> THEN Len(data) >= 14
    ELSE IF /\ SubSeq(data, 1, 4) = <<82, 73, 70, 70>>
            /\ Len(data) >= 12
            /\ SubSeq(data, 9, 12) = <<87, 69, 66, 80>> THEN TRUE
    ELSE Len(data) > 100

IMAGE_SLASH == <<105, 109, 97, 103, 101, 47>>           \* "image/"

\* detectImageType, its result as character codes
detectImageType(data) ==
    IF Len(data) < 4 THEN IMAGE_SLASH \o <<106, 112, 101, 103>>
    ELSE IF SubSeq(data, 1, 3) = <<255, 216, 255>> THEN IMAGE_SLASH \o <<106, 112, 101, 103>>
    ELSE IF Len(data) >= 8 /\ SubSeq(data, 1, 8) = <<137, 80, 78, 71, 13, 10, 26, 10>>
         THEN IMAGE_SLASH \o <<112, 110, 103>>
    ELSE IF /\ Len(data) >= 6
            /\ SubSeq(data, 1, 4) = <<71, 73, 70, 56>>
            /\ data[5] \in {55, 57}
            /\ data[6] = 97
         THEN IMAGE_SLASH \o <<103, 105, 102>>
    ELSE IF SubSeq(data, 1, 2) = <<66, 77>> /\ Len(data) >= 14
         THEN IMAGE_SLASH \o <<98, 109, 112>>
    ELSE IF /\ Len(data) >= 12
            /\ SubSeq(data, 1, 4) = <<82, 73, 70, 70>>
            /\ SubSeq(data, 9, 12) = <<87, 69, 66, 80>>
         THEN IMAGE_SLASH \o <<119, 101, 98, 112>>
    ELSE IF SubSeq(data, 1, 4) = <<73, 73, 42, 0>> \/ SubSeq(data, 1, 4) = <<77, 77, 0, 42>>
         THEN IMAGE_SLASH \o <<116, 105, 102, 102>>
    ELSE IMAGE_SLASH \o <<106, 112, 101, 103>>

NO_BLOB == [null |-> TRUE]

\* parsePictureFrame up to its call of createBlobUrl: NO_BLOB for null, or the
\* Blob that createBlobUrl makes of the image bytes and the MIME type
parsePictureFrame(data) ==
    IF Len(data) < 5 THEN NO_BLOB
    ELSE LET encoding == byteAt(data, 0)
             zeros == {k \in 1..(Len(data) - 1) : byteAt(data, k) = 0}
             mimeEnd == IF zeros = {} THEN Len(data)
                        ELSE CHOOSE k \in zeros : \A h \in zeros : k <= h
             mimeType == SubSeq(data, 2, mimeEnd)
             typeOffset == mimeEnd + 1
             descriptionOffset == typeOffset + 1
             imageOffset == descriptionOffset
                                + descriptionBytes(data, descriptionOffset, encoding)
             imageData == SubSeq(data, imageOffset + 1, Len(data))
         IN  IF typeOffset >= Len(data) THEN NO_BLOB
             ELSE IF descriptionOffset >= Len(data) THEN NO_BLOB
             ELSE IF imageOffset >= Len(data) THEN NO_BLOB
             ELSE IF ~isValidImageData(imageData) THEN NO_BLOB
             ELSE [type |-> IF mimeType # <<>> THEN mimeType ELSE detectImageType(imageData),
                   data |-> imageData]

NEW_BLOB_URL == "blob:new"           \* what URL.createObjectURL returns for a Blob

APIC == <<65, 80, 73, 67>>

\* parseFrame for the text frames and the picture frame
parseFrame(frame, metadata) ==
    CASE frame.id = FrameIds[1] ->
            [metadata EXCEPT !.title = IF parseTextFrame(frame.data) # NULL
                                       THEN parseTextFrame(frame.data) ELSE @]
      [] frame.id = FrameIds[2] ->
            [metadata EXCEPT !.artist = IF parseTextFrame(frame.data) # NULL
                                        THEN parseTextFrame(frame.data) ELSE @]
      [] frame.id = FrameIds[3] ->
            [metadata EXCEPT !.album = IF parseTextFrame(frame.data) # NULL
                                       THEN parseTextFrame(frame.data) ELSE @]
      [] frame.id = APIC ->
            [metadata EXCEPT !.cover = IF parsePictureFrame(frame.data) = NO_BLOB
                                       THEN NULL ELSE NEW_BLOB_URL]
      [] OTHER -> metadata

\* the header test of parseID3v2 without its test of the version
hasTagHeaderOfAnyVersion(dataView) ==
    /\ Len(dataView) >= 10
    /\ SubSeq(dataView, 1, 3) = <<73, 68, 51>>

\* the tests parseID3v2 makes before it reads the tag size: ten bytes, "ID3",
\* major version 2, 3 or 4
hasTagHeader(dataView) ==
    /\ Len(dataView) >= 10
    /\ SubSeq(dataView, 1, 3) = <<73, 68, 51>>
    /\ ~(getUint8(dataView, 3) < 2 \/ getUint8(dataView, 3) > 4)

\* parseID3v2 from its start to the frame loop
ParseHeader ==
    /\ parse.pc = "called"
    /\ LET dataView == tagBytes(parse.file)
           majorVersion == getUint8(dataView, 3)
           flags == getUint8(dataView, 5)
           tagSize == readSyncSafeInt(dataView, 6)
           offset == IF (flags \div 64) % 2 = 1 /\ 10 + 4 <= Len(dataView)
                     THEN 10 + 4 + readSyncSafeInt(dataView, 10)
                     ELSE 10
       IN  IF ~hasTagHeader(dataView)
           THEN parse' = [parse EXCEPT !.pc = "returned"]
           ELSE parse' = [parse EXCEPT !.pc = "frames", !.tagSize = tagSize,
                                       !.offset = offset]
    /\ UNCHANGED <<vault, noteCount, cleanedUp, settings, playlistVars, progressVars, cache, fileTags,
                   dataJson, onSaveNeeded, isDirty, saveTimeout, saveTimers, saveBurst,
                   refreshes, reextractTimers, reextracting, ret>>

\* one turn of the frame loop of parseID3v2, or its end
ReadNextFrame ==
    /\ parse.pc = "frames"
    /\ LET dataView == tagBytes(parse.file)
           frame == readFrame(dataView, parse.offset)
       IN  IF \/ ~(parse.offset < parse.tagSize + 10 /\ parse.offset + 10 < Len(dataView))
              \/ frame = NO_FRAME
           THEN parse' = [parse EXCEPT !.pc = "returned"]
           ELSE parse' = [parse EXCEPT
                            !.metadata = parseFrame(frame, @),
                            !.blobUrls = IF frame.id = APIC
                                            /\ parsePictureFrame(frame.data) # NO_BLOB
                                         THEN Append(@, parsePictureFrame(frame.data))
                                         ELSE @,
                            !.frames = Append(@, [id |-> frame.id, size |-> frame.size,
                                                  start |-> parse.offset]),
                            !.offset = @ + 10 + frame.size,
                            !.pc = IF Len(parse.frames) + 1 > 50 THEN "returned" ELSE @]
    /\ UNCHANGED <<vault, noteCount, cleanedUp, settings, playlistVars, progressVars, cache, fileTags,
                   dataJson, onSaveNeeded, isDirty, saveTimeout, saveTimers, saveBurst,
                   refreshes, reextractTimers, reextracting, ret>>

NextTag == ParseHeader \/ ReadNextFrame

\* an exception inside parseID3v2 (new DataView(arrayBuffer), a read, a frame
\* handler): the catch of extractMetadata returns a copy of DEFAULT_METADATA
ParseThrows ==
    /\ parse.pc \in {"called", "frames"}
    /\ parse' = [parse EXCEPT !.pc = "caught", !.metadata = DEFAULT_METADATA]
    /\ UNCHANGED <<vault, noteCount, cleanedUp, settings, playlistVars, progressVars, cache, fileTags,
                   dataJson, onSaveNeeded, isDirty, saveTimeout, saveTimers, saveBurst,
                   refreshes, reextractTimers, reextracting, ret>>

\* extractMetadata of the parser built on music-metadata, from its call to its
\* return: parseBuffer returns the tags or throws, compressImage returns
\* compressed where extractCover calls it
ParseBuffer(compressed) ==
    /\ parse.pc = "parseBuffer"
    /\ parse' = [parse EXCEPT
                    !.pc = IF parse.tags.parses THEN "returned" ELSE "caught",
                    !.compressed = compressed,
                    !.metadata = extractMetadata(parse.tags, parse.existingCover,
                                                 compressed)]
    /\ UNCHANGED <<vault, noteCount, cleanedUp, settings, playlistVars, progressVars, cache, fileTags,
                   dataJson, onSaveNeeded, isDirty, saveTimeout, saveTimers, saveBurst,
                   refreshes, reextractTimers, reextracting, ret>>

NextExtract ==
    \/ ParseHeader
    \/ ReadNextFrame
    \/ ParseThrows
    \/ /\ parse.pc = "parseBuffer"
       /\ \E compressed \in CompressResults(parse.tags) : ParseBuffer(compressed)

\* files whose frame walk ends before the last frame: a frame of size 0, a
\* tag size that leaves out the last frame, a file cut off inside the last
\* frame or inside its header
BrokenFiles ==
    {tagFile(version, sizes, NO_FRAME, 0, audio, understated, dropped) :
        version \in TagVersions,
        sizes \in {<<300, 0, 1>>, <<1, 300>>, <<300, 300, 1>>, <<1, 1>>},
        audio \in AudioBytes,
        understated \in {0, 11},
        dropped \in {0, 5, 6}}

ManyFrames == 52                     \* frames of a file with more frames than the walk takes

LongFiles ==
    {tagFile(version, [k \in 1..ManyFrames |-> 1], NO_FRAME, 0, <<>>, 0, 0) :
        version \in TagVersions}

\* files that parseID3v2 gives up on before the frame loop, and files like
\* them that it reads: one or two text frames after a header with or without
\* "ID3", of the versions 1 to 5 but 2, cut off before the end of the header or not
HeaderFiles ==
    {[tagFile(version, sizes, NO_FRAME, 0, <<>>, 0, dropped) EXCEPT !.magic = magic] :
        version \in {1, 3, 4, 5},
        sizes \in {<<300>>, <<300, 1>>},
        magic \in {<<73, 68, 51>>, <<73, 68, 50>>, <<255, 251, 144>>},
        dropped \in {0, 312}}

\* embedded pictures at the sizes where extractCover changes its treatment
TierSizes ==
    {3, 500 * 1024, 500 * 1024 + 1, 2048 * 1024, 2048 * 1024 + 1,
     5120 * 1024, 5120 * 1024 + 1}

LibraryTags ==
    {TagsCorrupt, TagsPlain}
        \cup {[TagsRepainted EXCEPT !.pictures = <<[NEW_PICTURE EXCEPT !.dataLength = size]>>] :
                  size \in TierSizes}

\* the calls extractMetadata(arrayBuffer, existingCover) of the parser built on
\* music-metadata
LibraryCalls ==
    {[pc |-> "parseBuffer", tags |-> tags, existingCover |-> existingCover,
      compressed |-> NULL, metadata |-> DEFAULT_METADATA] :
        tags \in LibraryTags,
        existingCover \in {UNDEFINED, NULL, COVER_BLOB, COVER_BAD, COVER_DATA, COVER_HTTP}}

parserCalls(files) ==
    {[pc |-> "called", file |-> file, tagSize |-> 0, offset |-> 0,
      frames |-> <<>>, blobUrls |-> <<>>,
      metadata |-> DEFAULT_METADATA] : file \in files}

\* extractMetadata has been called
InitParsing(calls) ==
    /\ parse \in calls
    /\ cleanedUp = FALSE
    /\ vault = <<F3, F1, F2>>
    /\ noteCount = 0
    /\ settings = [musicFolderPath |-> "m", favorites |-> <<>>,
                   playbackMode |-> "loop", metadata |-> SavedMetadata]
    /\ fullPlaylist = <<>>
    /\ viewPlaylist = <<>>
    /\ updated = <<>>
    /\ playlists = <<>>
    /\ currentTrack = NO_TRACK
    /\ currentCategory = "all"
    /\ searchQuery = ""
    /\ scans = <<>>
    /\ rescanTimers = 0
    /\ cache = EmptyMetadataMap
    /\ ret = NO_TRACK
    /\ fileTags = DefaultTags
    /\ dataJson = settings.metadata
    /\ onSaveNeeded = NULL
    /\ isDirty = FALSE
    /\ saveTimeout = NULL
    /\ saveTimers = <<>>
    /\ saveBurst = [calls |-> 0, sinceCall |-> 0, saves |-> 0]
    /\ refreshes = <<>>
    /\ reextractTimers = <<>>
    /\ reextracting = <<>>
    /\ isInitialized = FALSE
    /\ totalTracks = 0
    /\ processedTracks = 0

\* extractMetadata(arrayBuffer) has been called with the bytes of one of the files
InitParser(files) == InitParsing(parserCalls(files))

InitTag == InitParser(TagFiles)

SpecTag == InitTag /\ [][NextTag]_vars

PNG_IMAGE == <<137, 80, 78, 71, 13, 10, 26, 10>>
JPEG_IMAGE == <<255, 216, 255, 224, 0, 0, 255, 217>>
NO_IMAGE == <<1, 2, 3, 4>>             \* bytes of no picture format

\* descriptions as the encodings 0 to 3 write them: none and "AB", in UTF-16
\* with byte order mark for encoding 1 and in UTF-16BE for encoding 2
Descriptions(encoding) ==
    CASE encoding \in {0, 3} -> {<<>>, <<65, 66>>}
      [] encoding = 1 -> {<<255, 254>>, <<255, 254, 65, 0, 66, 0>>}
      [] encoding = 2 -> {<<>>, <<0, 65, 0, 66>>}

Pictures ==
    {[encoding |-> encoding, mime |-> mime, description |-> description, image |-> image] :
        encoding \in 0..3,
        mime \in {<<>>, IMAGE_SLASH \o <<112, 110, 103>>},
        description \in UNION {Descriptions(e) : e \in 0..3},
        image \in {PNG_IMAGE, JPEG_IMAGE, NO_IMAGE}}

\* files with a picture frame after no or one text frame
PictureFiles ==
    {tagFile(version, sizes, picture, 0, <<>>, 0, 0) :
        version \in TagVersions,
        sizes \in {<<>>, <<1>>},
        picture \in {p \in Pictures : p.description \in Descriptions(p.encoding)}}

InitPicture == InitParser(PictureFiles)

SpecPicture == InitPicture /\ [][NextTag]_vars

InitExtract == InitParsing(parserCalls(HeaderFiles) \cup LibraryCalls)

SpecExtract == InitExtract /\ [][NextExtract]_vars

InitWalk == InitParser(TagFiles \cup BrokenFiles \cup LongFiles)

SpecWalk == InitWalk /\ [][NextTag]_vars

(***************************************************************************)
(* Steps in which updateView ran                                           *)
(***************************************************************************)
ScanCompletes ==
    \/ (LoadFullPlaylist \/ RescanTimerFires) /\ scans' = scans
    \/ ResumeScan /\ Len(scans') < Len(scans)

HostDerivation ==
    \/ \E mode \in PlaybackModes : SetPlaybackMode(mode)
    \/ \E category \in Categories : SetCategory(category)
    \/ \E query \in Queries : SetSearchQuery(query)
    \/ /\ currentCategory = "favorite"
       /\ \E track \in TracksShown \cup {NO_TRACK} :
              /\ track # NO_TRACK \/ currentTrack # NO_TRACK
              /\ ToggleFavorite(track)

Derivation == ScanCompletes \/ HostDerivation

(***************************************************************************)
(* Claims                                                                  *)
(***************************************************************************)
CursorInFullList(full, track) == track = NO_TRACK \/ inList(full, track.path)

\* C1: after every view derivation, a current track that was unset or whose
\* path is not in the full list has become the first element of the derived
\* view (unset when the view is empty), so no derivation ends with a current
\* track whose path is absent from the full list.
C1_CursorFallback ==
    [][Derivation =>
        /\ needsFallback(fullPlaylist', currentTrack)
               => currentTrack' = firstOf(viewPlaylist')
        /\ CursorInFullList(fullPlaylist', currentTrack')]_vars

\* Array position of the track with the given path, 0-based, -1 when there is none
indexOfPath(list, track) ==
    IF track # NO_TRACK /\ inList(list, track.path)
    THEN (CHOOSE k \in 1..Len(list) :
              list[k].path = track.path /\ \A h \in 1..(k - 1) : list[h].path # track.path) - 1
    ELSE -1

\* C2: on a non-empty view of n tracks playNext selects and returns the element
\* after the current track's position i, (i+1) mod n, and playPrevious the one
\* before it, (i-1+n) mod n; without a current track in the view playNext takes
\* the first and playPrevious the last element; on an empty view both return
\* null and leave the current track alone.
C2_CursorWraparound ==
    [][LET n == Len(viewPlaylist)
           i == indexOfPath(viewPlaylist, currentTrack)
       IN  /\ PlayNext =>
                IF n = 0 THEN ret' = NO_TRACK /\ currentTrack' = currentTrack
                ELSE /\ ret' = viewPlaylist[((i + 1) % n) + 1]
                     /\ currentTrack' = ret'
           /\ PlayPrevious =>
                IF n = 0 THEN ret' = NO_TRACK /\ currentTrack' = currentTrack
                ELSE /\ ret' = viewPlaylist[(IF i = -1 THEN n - 1
                                              ELSE (i - 1 + n) % n) + 1]
                     /\ currentTrack' = ret']_vars

\* C3: after every view derivation whose view is non-empty, a current track
\* whose path the view does not hold has been replaced by the view's first
\* element, so the current track is a member of the view.
C3_CursorInView ==
    [][(Derivation /\ viewPlaylist' # <<>>) =>
        /\ (currentTrack = NO_TRACK \/ ~inList(viewPlaylist', currentTrack.path))
              => currentTrack' = viewPlaylist'[1]
        /\ currentTrack' # NO_TRACK
        /\ inList(viewPlaylist', currentTrack'.path)]_vars

(***************************************************************************)
(* Claims about refreshAllMetadata                                         *)
(***************************************************************************)
\* an entry with title, artist, cover and lyrics all present
Complete(entry) ==
    /\ entry # NO_METADATA
    /\ ~isFalsy(entry.title)
    /\ ~isFalsy(entry.artist)
    /\ ~isFalsy(entry.cover)
    /\ ~isFalsy(entry.lyrics)

\* the supported audio files of the vault under the root
EnumeratedPaths ==
    {path \in VaultFiles :
        /\ inVault(path)
        /\ startsWith(Chars(path), Chars(settings.musicFolderPath))
        /\ isSupportedAudioFile(fileName(path))}

\* the files whose extraction refresh k has started in this step
StartedExtractions(k) ==
    IF Len(refreshes') = Len(refreshes)
    THEN {job.path : job \in refreshes'[k].pending} ELSE {}

OthersContinue(k, job) ==
    IF refreshes[k].pending = {job}
    THEN Len(refreshes') = Len(refreshes) - 1
    ELSE /\ Len(refreshes') = Len(refreshes)
         /\ refreshes'[k].pending = refreshes[k].pending \ {job}

OthersUntouched(job) ==
    \A other \in VaultFiles \ {job.path} : cache'[other] = cache[other]

ParserThrows(k, job) ==
    /\ ~fileTags[job.path].parses
    /\ \E compressed \in {NULL, COVER_DATA} : ExtractionReturns(k, job, compressed)

\* C5, as the code has it: a read error of one file is caught in
\* processFileIfNeeded and the file's entry becomes the default with the file's
\* basename as title, unknown artist and album and null lyrics; an exception of
\* the parser is caught in the parser and the entry becomes the parser's default
\* (unknown title, artist and album, no cover, no lyrics). Either way no other
\* entry changes, the other extractions go on, and when the refresh ends every
\* enumerated file has an entry.
C5_FailureCaught ==
    [][/\ \A k \in 1..Len(refreshes), job \in PendingJobs :
            /\ ExtractionFails(k, job) =>
                  /\ cache'[job.path] # NO_METADATA
                  /\ cache'[job.path].title = fileBasename(job.path)
                  /\ cache'[job.path].artist = UNKNOWN_ARTIST
                  /\ cache'[job.path].album = UNKNOWN_ALBUM
                  /\ cache'[job.path].lyrics = NULL
                  /\ OthersUntouched(job)
                  /\ OthersContinue(k, job)
            /\ ParserThrows(k, job) =>
                  /\ cache'[job.path] # NO_METADATA
                  /\ cache'[job.path].title = UNKNOWN_TITLE
                  /\ cache'[job.path].artist = UNKNOWN_ARTIST
                  /\ cache'[job.path].album = UNKNOWN_ALBUM
                  /\ cache'[job.path].cover = NULL
                  /\ isFalsy(cache'[job.path].lyrics)
                  /\ OthersUntouched(job)
                  /\ OthersContinue(k, job)
       /\ Len(refreshes') < Len(refreshes) =>
             \A path \in EnumeratedPaths : cache'[path] # NO_METADATA]_vars

\* C5, as the claim has it: after a read error and after a parser exception
\* alike the file's entry has the file's basename as title, unknown artist and
\* album and null lyrics.
C5_FailureDefaults ==
    [][\A k \in 1..Len(refreshes), job \in PendingJobs :
          ExtractionFails(k, job) \/ ParserThrows(k, job) =>
             /\ cache'[job.path] # NO_METADATA
             /\ cache'[job.path].title = fileBasename(job.path)
             /\ cache'[job.path].artist = UNKNOWN_ARTIST
             /\ cache'[job.path].album = UNKNOWN_ALBUM
             /\ cache'[job.path].lyrics = NULL]_vars

\* a refresh has ended in which the read of F1 failed and the parser threw on F2
C5_BothFailuresSurvived ==
    /\ refreshes = <<>>
    /\ saveBurst.calls > 0
    /\ ~fileTags[F2].parses
    /\ cache[F1] # NO_METADATA
    /\ cache[F1].title = fileBasename(F1)
    /\ cache[F2] # NO_METADATA
    /\ cache[F2].title = UNKNOWN_TITLE

isInMusicFolder(path) ==
    /\ settings.musicFolderPath # ""
    /\ startsWith(Chars(path), normalizePath(Chars(settings.musicFolderPath)))

FileEvent(path) == CreateFile(path) \/ DeleteFile(path)

\* C7: the events for paths under the root that arrive while a rescan is
\* scheduled are batched into that one rescan, so no second rescan is pending;
\* an event for a path outside the root schedules nothing and changes nothing.
C7_OneRescanPerBurst ==
    [][\A path \in VaultFiles : FileEvent(path) =>
          IF isInMusicFolder(path)
          THEN rescanTimers' = 1
          ELSE UNCHANGED <<settings, playlistVars, cache>>]_vars

\* exportToSettings().metadata: the paths it has entries for
exportedPaths == {path \in VaultFiles : cache[path] # NO_METADATA}

\* handleFileChange ran for the path: only it removes an entry of settings.metadata
Invalidated(path) ==
    SavedMetadata[path] # NO_METADATA /\ settings.metadata[path] = NO_METADATA

\* C8: once handleFileChange ran for a path under the root, the cache has no
\* entry for the path, an export does not contain it, and after the scheduled
\* rescan the path's track carries the title-only default metadata.
C8_EntryInvalidated ==
    \A path \in VaultFiles : Invalidated(path) =>
        /\ getMetadata(path) = NO_METADATA
        /\ path \notin exportedPaths
        /\ rescanTimers = 0 =>
              \A k \in 1..Len(fullPlaylist) :
                  fullPlaylist[k].path = path
                      => fullPlaylist[k].metadata = defaultTrackMetadata(path)

\* C9: at most one loadFullPlaylist is in progress at any time.
C9_OneScanAtATime == Len(scans) <= 1

\* C10: a derivation called while loadFullPlaylist is suspended is not computed
\* from the emptied full list: it does not empty the view the host showed and
\* does not reset the current track.
C10_NoDerivationDuringScan ==
    [][(scans # <<>> /\ HostDerivation) =>
          ~(/\ fullPlaylist = <<>>
            /\ viewPlaylist # <<>> /\ viewPlaylist' = <<>>
            /\ currentTrack # NO_TRACK /\ currentTrack' = NO_TRACK)]_vars

(***************************************************************************)
(* Claims about the extractions of one refresh                             *)
(***************************************************************************)
\* what the processing of one file can store, from that file's own data: its
\* tags, its persisted entry and the cover handed to its extraction
OwnResults(path, persistedEntry, existingCover) ==
    {extractMetadata(fileTags[path], existingCover, compressed) :
        compressed \in CompressResults(fileTags[path])}
    \cup {[title |-> fileBasename(path), artist |-> UNKNOWN_ARTIST,
           album |-> UNKNOWN_ALBUM,
           cover |-> validateAndPreserveCover(coverOf(persistedEntry)),
           lyrics |-> NULL]}

\* the cover handed to the extraction of a file, from that file's own entries
OwnCover(persistedEntry, cachedEntry) ==
    validateAndPreserveCover(IF ~isFalsy(coverOf(persistedEntry))
                             THEN coverOf(persistedEntry) ELSE coverOf(cachedEntry))

\* C11: whichever extraction of a refresh ends, in whatever order, the step
\* writes the cache entry of its own path only, and what it writes is made of
\* that file's tags, persisted entry and own earlier cover alone; the step
\* that starts the extractions reads, for each file, that file's entries only.
\* So the cache after the refresh does not depend on the order of completion.
C11_PerFileResult ==
    [][/\ \A k \in 1..Len(refreshes), job \in PendingJobs :
            (\/ ExtractionFails(k, job)
             \/ \E compressed \in {NULL, COVER_DATA} :
                   ExtractionReturns(k, job, compressed)) =>
               /\ OthersUntouched(job)
               /\ cache'[job.path] \in
                     OwnResults(job.path, refreshes[k].existingData[job.path],
                                job.existingCover)
       /\ \A k \in 1..Len(refreshes), readOk \in BOOLEAN :
            RefreshLoaded(k, readOk) =>
               LET persisted == IF readOk THEN dataJson ELSE EmptyMetadataMap
               IN  /\ \A path \in VaultFiles \ EnumeratedPaths :
                         cache'[path] = cache[path]
                   /\ \A path \in EnumeratedPaths :
                         \/ cache'[path] = cache[path]
                         \/ /\ persisted[path] # NO_METADATA
                            /\ cache'[path] = reusedMetadata(persisted[path])
                   /\ Len(refreshes') = Len(refreshes) =>
                         \A job \in refreshes'[k].pending :
                             job.existingCover =
                                 OwnCover(persisted[job.path], cache[job.path])]_vars

\* of two extractions of one refresh the one of F2 has ended first and the one
\* of F1 is still in flight
C11_SecondFileFirst ==
    \E k \in 1..Len(refreshes) :
        /\ refreshes[k].existingData = EmptyMetadataMap
        /\ {job.path : job \in refreshes[k].pending} = {F1}
        /\ cache[F1] = NO_METADATA
        /\ cache[F2] # NO_METADATA

(***************************************************************************)
(* Claims about MetadataManager.handleFileChange                           *)
(***************************************************************************)
\* C12: handleFileChange(path, "delete") for an audio file removes the entry
\* of path from the cache in the same step, sets the dirty flag, arms the save
\* timer with the full delay and leaves all other entries as they are; for a
\* file that is not an audio file the cache, the flag and the timers stay.
C12_DeleteFrame ==
    [][/\ MetadataFileChange(F1, "delete") =>
             /\ cache' = [cache EXCEPT ![F1] = NO_METADATA]
             /\ isDirty'
             /\ saveTimeout' # NULL
             /\ saveTimers' # <<>>
             /\ saveTimers'[Len(saveTimers')] = DelayTicks
             /\ reextractTimers' = reextractTimers
       /\ MetadataFileChange(NOTE, "delete") =>
             UNCHANGED <<cache, isDirty, saveTimeout, saveTimers, reextractTimers,
                         reextracting>>]_vars

\* the entry of F1 is gone after the delete event and the save is pending,
\* while the entry of F2 is still there
C12_EntryDeleted ==
    /\ ~inVault(F1)
    /\ cache[F1] = NO_METADATA
    /\ cache[F2] # NO_METADATA
    /\ isDirty
    /\ saveTimers # <<>>

\* C13: when the re-extraction that follows a create or modify event returns
\* for a file that carries a picture, the cover stored is the one made of that
\* picture; the cover the entry had before is kept only for a file without
\* picture data.
C13_NewPictureStored ==
    [][\A j \in 1..Len(reextracting), compressed \in {NULL, COVER_DATA} :
          (ReextractionReturns(j, compressed) /\ fileTags[reextracting[j].path].parses) =>
             LET path == reextracting[j].path
                 pictures == fileTags[path].pictures
             IN  /\ cache'[path] # NO_METADATA
                 /\ pictures # <<>> =>
                       cache'[path].cover = createDataUrl(pictures[1])
                 /\ (pictures = <<>> /\ isValidCoverData(reextracting[j].existingCover)) =>
                       cache'[path].cover = reextracting[j].existingCover]_vars

(***************************************************************************)
(* Claims about covers                                                     *)
(***************************************************************************)
\* a cover that is a data URL of an image with a decodable payload
isDataUriImage(cover) ==
    /\ ~isFalsy(cover)
    /\ startsWith(Chars(cover), Chars("data:image/"))
    /\ validateAndPreserveCover(cover) = cover

\* C14: extractCover returns a valid data-URI existing cover as it is, whatever
\* pictures the file has; and whenever a refresh ends the processing of an
\* unchanged file whose entry had such a cover, the entry still has that cover.
C14_ValidCoverKept ==
    [][/\ \A pictures \in {<<>>, <<SMALL_PICTURE>>, <<NEW_PICTURE>>},
             compressed \in {NULL, COVER_NEW} :
             extractCover(pictures, COVER_DATA, compressed) = COVER_DATA
       /\ \A k \in 1..Len(refreshes), job \in PendingJobs :
             ((\/ ExtractionFails(k, job)
               \/ \E compressed \in {NULL, COVER_DATA} :
                     ExtractionReturns(k, job, compressed))
              /\ cache[job.path] # NO_METADATA
              /\ isDataUriImage(cache[job.path].cover)) =>
                 /\ cache'[job.path] # NO_METADATA
                 /\ cache'[job.path].cover = cache[job.path].cover]_vars

(***************************************************************************)
(* Claims about initializeFromSettings and exportToSettings                *)
(***************************************************************************)
\* the covers of the persisted maps that hydration keeps
KeptCovers == {COVER_DATA, COVER_NEW, COVER_HTTP}

\* C15 (amended): after initializeFromSettings(S) the cache has exactly the
\* keys of S.metadata; each entry has the persisted title and artist, the
\* persisted album or the unknown-album default where that is missing or
\* empty, the persisted lyrics or null where they are missing or empty, and
\* the persisted cover where it is a data URL of an image with a decodable
\* payload or an http URL, null otherwise; isFullyInitialized() is true and
\* processed = total = the number of persisted entries.
C15_Hydrated ==
    [][InitializeMetadata =>
          /\ \A path \in VaultFiles :
                LET persisted == settings.metadata[path] IN
                IF persisted = NO_METADATA THEN cache'[path] = NO_METADATA
                ELSE /\ cache'[path] # NO_METADATA
                     /\ cache'[path].title = persisted.title
                     /\ cache'[path].artist = persisted.artist
                     /\ cache'[path].album =
                           IF persisted.album \in {NULL, UNDEFINED, ""}
                           THEN UNKNOWN_ALBUM ELSE persisted.album
                     /\ cache'[path].lyrics =
                           IF persisted.lyrics \in {NULL, UNDEFINED, ""}
                           THEN NULL ELSE persisted.lyrics
                     /\ cache'[path].cover =
                           IF persisted.cover \in KeptCovers
                           THEN persisted.cover ELSE NULL
          /\ isFullyInitialized'
          /\ getInitializationProgress'.current = getInitializationProgress'.total
          /\ getInitializationProgress'.total =
                Cardinality({path \in VaultFiles : settings.metadata[path] # NO_METADATA})]_vars

\* C15, as the claim has it: album and lyrics are kept as they are, and the
\* cover is kept unless it is a blob: URL
C15_HydratedAsIs ==
    [][InitializeMetadata =>
          \A path \in VaultFiles :
             LET persisted == settings.metadata[path] IN
             IF persisted = NO_METADATA THEN cache'[path] = NO_METADATA
             ELSE /\ cache'[path] # NO_METADATA
                  /\ cache'[path].title = persisted.title
                  /\ cache'[path].artist = persisted.artist
                  /\ cache'[path].album = persisted.album
                  /\ cache'[path].lyrics = persisted.lyrics
                  /\ cache'[path].cover =
                        IF /\ ~isFalsy(persisted.cover)
                           /\ startsWith(Chars(persisted.cover), Chars("blob:"))
                        THEN NULL ELSE persisted.cover]_vars

\* the cache was hydrated from a persisted map with two entries, one of them
\* with an empty album and no lyrics
C15_TwoHydrated ==
    /\ isInitialized
    /\ processedTracks = 2
    /\ totalTracks = 2
    /\ cache[F2] # NO_METADATA
    /\ cache[F2].album = UNKNOWN_ALBUM
    /\ cache[F2].lyrics = NULL
    /\ cache[F1] # NO_METADATA
    /\ cache[F1].cover = COVER_DATA

\* C16 (amended): exportToSettings has an entry for exactly the paths of the
\* cache, each equal to the cache entry; loading the export again gives a
\* cache with the same paths and the same entries, except that an entry
\* without a lyrics property comes back with lyrics null.
C16_RoundTrip ==
    LET loaded == initializeFromSettings(exportToSettings) IN
    \A path \in VaultFiles :
        /\ exportToSettings[path] = cache[path]
        /\ IF cache[path] = NO_METADATA THEN loaded[path] = NO_METADATA
           ELSE loaded[path] =
                   [cache[path] EXCEPT !.lyrics = IF @ = UNDEFINED THEN NULL ELSE @]

\* C16, as the claim has it: export followed by load is the identity
C16_RoundTripIdentity ==
    /\ \A path \in VaultFiles : exportToSettings[path] = cache[path]
    /\ initializeFromSettings(exportToSettings) = cache

\* the cache holds an entry with a cover and the entry of a file the parser
\* failed on
C16_CacheWithDefaults ==
    /\ cache[F1] # NO_METADATA
    /\ cache[F1].cover = COVER_DATA
    /\ cache[F2] # NO_METADATA
    /\ cache[F2].lyrics = UNDEFINED

\* C17: in every state every cache entry and the metadata of every track of
\* the full list has a title, an artist and an album that are neither null nor
\* undefined nor the empty string.
C17_FieldsNonEmpty ==
    /\ \A path \in VaultFiles :
          cache[path] # NO_METADATA =>
             /\ cache[path].title \notin {NULL, UNDEFINED, ""}
             /\ cache[path].artist \notin {NULL, UNDEFINED, ""}
             /\ cache[path].album \notin {NULL, UNDEFINED, ""}
    /\ \A k \in 1..Len(fullPlaylist) :
          /\ fullPlaylist[k].metadata.title \notin {NULL, UNDEFINED, ""}
          /\ fullPlaylist[k].metadata.artist \notin {NULL, UNDEFINED, ""}
          /\ fullPlaylist[k].metadata.album \notin {NULL, UNDEFINED, ""}

\* the covers of the cache entries, of the exported map and of the tracks
CoversHeld ==
    {cache[path].cover : path \in {p \in VaultFiles : cache[p] # NO_METADATA}}
    \cup {exportToSettings[path].cover :
             path \in {p \in VaultFiles : exportToSettings[p] # NO_METADATA}}
    \cup {fullPlaylist[k].metadata.cover : k \in 1..Len(fullPlaylist)}

containsIgnoringCase(cs, q) == includes(toLowerCase(cs), toLowerCase(q))

\* the tracks of the full list, in its order, that are favorites (where that
\* is asked for) and, for a non-empty q, have q in title, artist or album
SearchedTracks(full, favorites, onlyFavorites, q) ==
    SelectSeq(full, LAMBDA track :
        /\ onlyFavorites => \E k \in 1..Len(favorites) : favorites[k] = track.path
        /\ q # "" =>
              \/ containsIgnoringCase(Chars(track.metadata.title), Chars(q))
              \/ containsIgnoringCase(Chars(track.metadata.artist), Chars(q))
              \/ containsIgnoringCase(Chars(track.metadata.album), Chars(q)))

\* C19: after every derivation of the view in a mode other than shuffle, the
\* view for the category "favorite" and the search query q is the full list
\* restricted, in its order, to the tracks whose path is a favorite and, for a
\* non-empty q, whose title, artist or album contains q ignoring case; for the
\* category "all" it is the same without the condition on favorites.
C19_FavoriteAndAllViews ==
    [][(/\ settings'.playbackMode # "shuffle"
        /\ currentCategory' \in {"all", "favorite"}
        /\ Derivation) =>
          viewPlaylist' = SearchedTracks(fullPlaylist', settings'.favorites,
                                         currentCategory' = "favorite", searchQuery')]_vars

\* both files are favorites and the search has left only one of them in the
\* view of the favorites
C19_FavoritesSearched ==
    /\ currentCategory = "favorite"
    /\ searchQuery = "lp"
    /\ settings.playbackMode # "shuffle"
    /\ Len(settings.favorites) = 2
    /\ Len(fullPlaylist) = 2
    /\ Len(viewPlaylist) = 1
    /\ viewPlaylist[1].path = F1

\* C20: after setCategory(P) for the name P of any sub-playlist the scan has
\* made, with an empty search query and a mode other than shuffle, the view is
\* the list of the tracks grouped under P, in scan order.
C20_SubPlaylistView ==
    [][\A category \in Categories :
          (/\ hasPlaylist(playlists, category)
           /\ searchQuery = ""
           /\ settings.playbackMode # "shuffle"
           /\ SetCategory(category)) =>
              viewPlaylist' = getPlaylistTracks(playlists, category)]_vars

\* how often a track occurs in a list
Occurrences(list, track) == Cardinality({k \in 1..Len(list) : list[k] = track})

\* C21: after every derivation of the view in shuffle mode the view holds the
\* tracks of the category- and search-filtered source, each as often as the
\* source holds it (once), none added and none lost; and a derivation the host
\* asks for leaves the full list and the named sub-playlists as they were.
C21_ShuffleIsPermutation ==
    [][(settings'.playbackMode = "shuffle" /\ Derivation) =>
          LET source == searchFilter(categorySource(fullPlaylist', playlists',
                                                    currentCategory', settings'.favorites),
                                     searchQuery')
          IN  /\ Len(viewPlaylist') = Len(source)
              /\ \A k \in 1..Len(source) :
                    /\ Occurrences(source, source[k]) = 1
                    /\ Occurrences(viewPlaylist', source[k]) = 1
              /\ \A k \in 1..Len(viewPlaylist') :
                    Occurrences(source, viewPlaylist'[k]) = 1
              /\ HostDerivation =>
                    /\ fullPlaylist' = fullPlaylist
                    /\ playlists' = playlists]_vars

\* in shuffle mode the view of all three tracks is in another order than the
\* full list
C21_ShuffledView ==
    /\ settings.playbackMode = "shuffle"
    /\ currentCategory = "all"
    /\ searchQuery = ""
    /\ Len(fullPlaylist) = 3
    /\ Len(viewPlaylist) = 3
    /\ viewPlaylist # fullPlaylist

\* the tracks of a list, as a set
TracksOf(list) == {list[k] : k \in 1..Len(list)}

\* C22: every toggleFavorite made while the category is "favorite" ends with
\* the view re-derived: it holds exactly the tracks of the full list whose path
\* is then a favorite and that match the search query, in the order of the full
\* list unless the mode is shuffle; a track toggled off has left the view and a
\* track of the full list toggled on is in it.
C22_ToggleRederivesView ==
    [][\A track \in TracksShown \cup {NO_TRACK} :
          (/\ currentCategory = "favorite"
           /\ track # NO_TRACK \/ currentTrack # NO_TRACK
           /\ ToggleFavorite(track)) =>
              LET expected == SearchedTracks(fullPlaylist, settings'.favorites,
                                             TRUE, searchQuery)
              IN  /\ TracksOf(viewPlaylist') = TracksOf(expected)
                  /\ Len(viewPlaylist') = Len(expected)
                  /\ settings.playbackMode # "shuffle" => viewPlaylist' = expected]_vars

\* in the favorites category one of two favorites was toggled off: the view
\* holds the other one, and the current track is the one toggled off
C22_ToggledOffGone ==
    /\ currentCategory = "favorite"
    /\ Len(fullPlaylist) = 2
    /\ settings.favorites = <<F2>>
    /\ Len(viewPlaylist) = 1
    /\ viewPlaylist[1].path = F2
    /\ currentTrack # NO_TRACK
    /\ currentTrack.path = F1

(***************************************************************************)
(* Claims about the favorites                                              *)
(***************************************************************************)
FavoritePaths(favorites) == {favorites[k] : k \in 1..Len(favorites)}

NoDuplicates(list) == \A a, b \in 1..Len(list) : list[a] = list[b] => a = b

\* C23: toggleFavorite(t) makes the path of t a favorite if it was none and
\* removes it if it was one, and leaves every other path as it was; without an
\* argument it does so for the current track, and without argument and current
\* track it changes nothing; a second toggle of the same track gives the set
\* of favorites back; and a list of favorites without duplicates stays so.
C23_ToggleFlipsOnePath ==
    [][\A track \in TracksShown \cup {NO_TRACK} :
          ToggleFavorite(track) =>
             LET targetTrack == IF track # NO_TRACK THEN track ELSE currentTrack IN
             IF targetTrack = NO_TRACK
             THEN settings' = settings /\ viewPlaylist' = viewPlaylist
             ELSE /\ (targetTrack.path \in FavoritePaths(settings'.favorites))
                        # (targetTrack.path \in FavoritePaths(settings.favorites))
                  /\ FavoritePaths(settings'.favorites) \ {targetTrack.path}
                        = FavoritePaths(settings.favorites) \ {targetTrack.path}
                  /\ FavoritePaths(toggledFavorites(settings'.favorites, targetTrack.path))
                        = FavoritePaths(settings.favorites)
                  /\ NoDuplicates(settings.favorites) => NoDuplicates(settings'.favorites)
                  /\ [settings' EXCEPT !.favorites = <<>>]
                        = [settings EXCEPT !.favorites = <<>>]]_vars

\* every track of the full list was toggled on, the first of the scan last
C23_ToggledTwice ==
    /\ settings.favorites = <<F2, F4, F1>>
    /\ Len(fullPlaylist) = 3

\* the segments of a path, and of the configured music folder
segments(path) == nonEmptyParts(split(normalizePath(Chars(path)), "/"))

\* the file lies in the folder or below it, compared segment by segment
liesUnder(path, folder) ==
    LET file == segments(path)
        root == segments(folder)
    IN  Len(file) > Len(root) /\ SubSeq(file, 1, Len(root)) = root

\* the immediate subfolder of the folder that holds the file, NULL for a file
\* directly in the folder or outside it
subfolderOf(path, folder) ==
    IF liesUnder(path, folder) /\ Len(segments(path)) > Len(segments(folder)) + 1
    THEN Str(segments(path)[Len(segments(folder)) + 1])
    ELSE NULL

\* C24: after a scan of the music folder R the named sub-playlists are exactly
\* one entry per immediate subfolder of R that holds a supported audio file,
\* named after the subfolder and holding the tracks of the full list whose
\* first segment below R is that subfolder, in scan order and once each; a
\* track directly in R is in no sub-playlist and only in the full list.
C24_SubPlaylistsAreSubfolders ==
    [][(~isBlankFolder(settings.musicFolderPath) /\ ScanCompletes) =>
          LET root == settings.musicFolderPath
              audio == {vault[k] : k \in 1..Len(vault)}
              folders == {subfolderOf(path, root) :
                             path \in {file \in audio :
                                          isSupportedAudioFile(fileName(file))}}
                            \ {NULL}
          IN  /\ {playlists'[k].name : k \in 1..Len(playlists')} = folders
              /\ Len(playlists') = Cardinality(folders)
              /\ \A k \in 1..Len(playlists') :
                    playlists'[k].tracks =
                        SelectSeq(fullPlaylist', LAMBDA track :
                            subfolderOf(track.path, root) = playlists'[k].name)
              /\ \A h \in 1..Len(fullPlaylist') :
                    subfolderOf(fullPlaylist'[h].path, root) = NULL =>
                        \A k \in 1..Len(playlists') :
                            ~inList(playlists'[k].tracks, fullPlaylist'[h].path)]_vars

PathsOf(list) == [k \in 1..Len(list) |-> list[k].path]

\* two lists hold the same metadata for every path they share
SameMetadata(a, b) ==
    \A h \in 1..Len(a), k \in 1..Len(b) :
        a[h].path = b[k].path => a[h].metadata = b[k].metadata

\* the lists are as a scan of the music folder leaves them, and the vault, the
\* cache, the category, the query, the favorites and the mode are as that scan
\* found them
AsScanned ==
    LET root == normalizePath(Chars(settings.musicFolderPath)) IN
    /\ scans = <<>>
    /\ ~isBlankFolder(settings.musicFolderPath)
    /\ fullPlaylist = makeFullPlaylist(collectedFiles(vault, root))
    /\ playlists = groupTracks(<<>>, fullPlaylist, root)
    /\ currentCategory \in {"all", "favorite"} \/ hasPlaylist(playlists, currentCategory)
    /\ viewPlaylist \in
          viewOrders(searchFilter(categorySource(fullPlaylist, playlists, currentCategory,
                                                 settings.favorites), searchQuery),
                     settings.playbackMode)

\* C25: a scan of a folder that a scan has just been through, with the vault and
\* the cache unchanged, gives a full list and a view with the same paths (in the
\* same order unless the mode is shuffle), the same metadata for every path, no
\* path twice, and the ids 0..n-1.
C25_RescanRepeats ==
    [][(AsScanned /\ ScanCompletes) =>
          /\ TracksOf(PathsOf(fullPlaylist')) = TracksOf(PathsOf(fullPlaylist))
          /\ TracksOf(PathsOf(viewPlaylist')) = TracksOf(PathsOf(viewPlaylist))
          /\ settings.playbackMode # "shuffle" =>
                /\ PathsOf(fullPlaylist') = PathsOf(fullPlaylist)
                /\ PathsOf(viewPlaylist') = PathsOf(viewPlaylist)
          /\ SameMetadata(fullPlaylist', fullPlaylist)
          /\ SameMetadata(viewPlaylist', viewPlaylist)
          /\ NoDuplicates(PathsOf(fullPlaylist'))
          /\ NoDuplicates(PathsOf(viewPlaylist'))
          /\ \A k \in 1..Len(fullPlaylist') : fullPlaylist'[k].id = k - 1]_vars

\* a library of three tracks as a scan left it, with the sub-playlist A chosen
\* and a favorite set: a scan from here is a repeated scan
C25_RescannedLibrary ==
    /\ AsScanned
    /\ Len(fullPlaylist) = 3
    /\ currentCategory = "A"
    /\ settings.favorites # <<>>
    /\ PathsOf(viewPlaylist) = <<F1>>
    /\ rescanTimers = 0

\* C26: every track of the full list a scan has built is a file with a
\* supported audio extension that lies under the configured music folder, the
\* folder being an ancestor of the file segment by segment; a file of a sibling
\* folder whose path only begins with the characters of the folder's path is
\* not in the list.
C26_OnlyFilesUnderRoot ==
    [][ScanCompletes =>
          \A k \in 1..Len(fullPlaylist') :
              /\ ~isBlankFolder(settings.musicFolderPath)
              /\ liesUnder(fullPlaylist'[k].path, settings.musicFolderPath)
              /\ isSupportedAudioFile(fileName(fullPlaylist'[k].path))]_vars

\* C27: while no music folder is configured, loadFullPlaylist and
\* refreshMetadata leave the model empty: no track in the full list, none in
\* the view, no sub-playlist, no current track; and the list carried by
\* onPlaylistUpdate is the empty list that getViewPlaylist() returns.
C27_EmptyWithoutFolder ==
    [][(/\ isBlankFolder(settings.musicFolderPath)
        /\ LoadFullPlaylist \/ RescanTimerFires \/ RefreshMetadataWithoutFolder) =>
          /\ fullPlaylist' = <<>>
          /\ viewPlaylist' = <<>>
          /\ playlists' = <<>>
          /\ currentTrack' = NO_TRACK
          /\ updated' = <<>>
          /\ updated' = viewPlaylist']_vars

\* C28: whatever a consumer does to a list it got from getViewPlaylist,
\* getPlaylist, getFullPlaylist or onPlaylistUpdate (reordering it, removing an
\* element), the full list, the view and the sub-playlists of the model stay
\* as they were.
C28_ListsAreSnapshots ==
    [][(\E mutation \in Mutations :
            ConsumerMutatesView(mutation) \/ ConsumerMutatesFull(mutation)) =>
          /\ fullPlaylist' = fullPlaylist
          /\ viewPlaylist' = viewPlaylist
          /\ playlists' = playlists]_vars

\* the current track was built by an earlier scan: the view holds a track with
\* its path under another id
CursorFromEarlierScan ==
    /\ currentTrack # NO_TRACK
    /\ inList(viewPlaylist, currentTrack.path)
    /\ viewPlaylist[indexOfPath(viewPlaylist, currentTrack) + 1].id # currentTrack.id

\* C29: when a rescan has renumbered the tracks and the view still holds the
\* path of the current track, playNext and playPrevious step from the position
\* of the view's track with that path: playNext selects the element after it and
\* playPrevious the element before it, wrapping around at the ends.
C29_CursorByPath ==
    [][CursorFromEarlierScan =>
          LET n == Len(viewPlaylist)
              i == indexOfPath(viewPlaylist, currentTrack)
          IN  /\ PlayNext => ret' = viewPlaylist[((i + 1) % n) + 1]
              /\ PlayPrevious => ret' = viewPlaylist[((i - 1 + n) % n) + 1]]_vars

\* where the k-th frame of a file begins: 10 bytes of tag header, then every
\* earlier frame with its 10 bytes of frame header
RECURSIVE frameStart(_, _)
frameStart(file, k) ==
    IF k = 1 THEN 10 ELSE frameStart(file, k - 1) + 10 + file.sizes[k - 1]

\* C30: the parser reads the size of the tag as b0*2^21 + b1*2^14 + b2*2^7 + b3
\* and the size of a frame in the same way in a version 4 tag and as the
\* big-endian number b0*2^24 + b1*2^16 + b2*2^8 + b3 in a version 3 tag, so in
\* both versions every frame is found where the frame before it ends (its start
\* + 10 + its size) and every frame of the tag is decoded.
C30_AllFramesDecoded ==
    LET file == parse.file
        bytes == tagBytes(file)
    IN  /\ parse.pc \in {"frames", "returned"} =>
              /\ parse.tagSize = bytes[7] * 2097152 + bytes[8] * 16384
                                    + bytes[9] * 128 + bytes[10]
              /\ parse.tagSize = frameStart(file, Len(file.sizes) + 1) - 10 + file.padding
              /\ \A k \in 1..Len(parse.frames) :
                    /\ parse.frames[k].start = frameStart(file, k)
                    /\ parse.frames[k].size = file.sizes[k]
                    /\ parse.frames[k].id = FrameIds[k]
                    /\ LET at == parse.frames[k].start IN
                       parse.frames[k].size =
                          IF file.majorVersion = 4
                          THEN bytes[at + 5] * 2097152 + bytes[at + 6] * 16384
                                  + bytes[at + 7] * 128 + bytes[at + 8]
                          ELSE bytes[at + 5] * 16777216 + bytes[at + 6] * 65536
                                  + bytes[at + 7] * 256 + bytes[at + 8]
        /\ parse.pc = "returned" =>
              /\ Len(parse.frames) = Len(file.sizes)
              /\ file.sizes[1] > 1 => parse.metadata.title = FrameTexts[1]

\* a version 3 tag of three frames of 300 bytes, more than one byte of a plain
\* size and more than 7 bits of a sync-safe one, has been read to its end
C30_ThreeFramesRead ==
    /\ parse.pc = "returned"
    /\ parse.file.majorVersion = 3
    /\ parse.file.sizes = <<300, 300, 300>>
    /\ Len(parse.frames) = 3
    /\ parse.frames[3].start = 630
    /\ parse.metadata.album = "Lp"

\* the frame walk of parseID3v2 has come to its end at parse.offset with no
\* more than cap frames processed, for one of the reasons the loop knows
walkStopped(cap) ==
    LET bytes == tagBytes(parse.file)
        offset == parse.offset
        id == SubSeq(bytes, offset + 1, offset + 4)
        size == IF bytes[4] >= 4
                THEN bytes[offset + 5] * 2097152 + bytes[offset + 6] * 16384
                        + bytes[offset + 7] * 128 + bytes[offset + 8]
                ELSE bytes[offset + 5] * 16777216 + bytes[offset + 6] * 65536
                        + bytes[offset + 7] * 256 + bytes[offset + 8]
    IN  \/ offset >= parse.tagSize + 10
        \/ Len(bytes) - offset <= 10
        \/ \E k \in 1..4 : id[k] \notin (65..90) \cup (48..57)
        \/ size = 0
        \/ offset + 10 + size > Len(bytes)
        \/ Len(parse.frames) = cap

\* every frame the walk has processed lies inside the buffer and inside the
\* declared tag, and there are no more than cap of them
walkInBounds(cap) ==
    LET bytes == tagBytes(parse.file)
    IN  /\ Len(parse.frames) <= cap
        /\ \A k \in 1..Len(parse.frames) :
              /\ parse.frames[k].size > 0
              /\ parse.frames[k].start >= 10
              /\ parse.frames[k].start < parse.tagSize + 10
              /\ parse.frames[k].start + 10 + parse.frames[k].size <= Len(bytes)

\* a turn of the frame loop either ends the walk or adds a frame and moves the
\* offset forward, so that a walk of no more than cap frames has an end
walkAdvances ==
    parse.pc = "frames" /\ parse'.pc = "frames" =>
        /\ Len(parse'.frames) = Len(parse.frames) + 1
        /\ parse'.offset > parse.offset

MaxFrames == 50                      \* the frames the walk may process

\* C31: the frame walk stops at the first of: the offset passing the declared
\* tag size, fewer bytes left than a frame header, a frame id that is not four
\* characters of A-Z and 0-9, a frame of size zero or one that overruns the
\* buffer; every frame it processes lies inside the buffer, it processes at
\* most 50 frames, and parsing comes to an end for every input: every turn of
\* the loop that does not end the walk adds one to the frames processed.
C31_WalkStops ==
    /\ [](parse.offset >= 10 => walkInBounds(MaxFrames))
    /\ [](parse.pc = "returned" /\ parse.offset >= 10 => walkStopped(MaxFrames))
    /\ [][walkAdvances]_vars

\* the same with the 51 frames that frameCount > 50 lets through
C31_WalkStopsAfter51 ==
    /\ [](parse.offset >= 10 => walkInBounds(MaxFrames + 1))
    /\ [](parse.pc = "returned" /\ parse.offset >= 10 => walkStopped(MaxFrames + 1))
    /\ [][walkAdvances]_vars

\* the data of the picture frame of the file parsed, as the walk found it
pictureData ==
    LET bytes == tagBytes(parse.file)
        found == {k \in 1..Len(parse.frames) : parse.frames[k].id = <<65, 80, 73, 67>>}
        frame == parse.frames[CHOOSE k \in found : TRUE]
    IN  SubSeq(bytes, frame.start + 11, frame.start + 10 + frame.size)

\* the bytes of the picture frame after encoding byte, MIME type and its zero,
\* picture type, description and its terminator of one or two bytes
picturePayload ==
    LET picture == parse.file.picture
        terminator == IF picture.encoding \in {1, 2} THEN 2 ELSE 1
        skipped == 1 + Len(picture.mime) + 1 + 1 + Len(picture.description) + terminator
    IN  SubSeq(pictureData, skipped + 1, Len(pictureData))

\* C32: for a picture frame the image payload handed on as the cover is exactly
\* the bytes of the frame that follow the encoding byte, the MIME type with its
\* zero, the picture type byte and the description with its terminator, one
\* zero byte for the encodings 0 and 3 and an aligned pair of zero bytes for
\* the encodings 1 and 2, so the payload starts with the magic bytes of the image.
C32_PicturePayload ==
    parse.pc = "returned" /\ parse.file.picture # NO_FRAME =>
        IF SubSeq(parse.file.picture.image, 1, 3) \in {<<137, 80, 78>>, <<255, 216, 255>>}
        THEN /\ parse.metadata.cover = NEW_BLOB_URL
             /\ Len(parse.blobUrls) = 1
             /\ parse.blobUrls[1].data = picturePayload
             /\ parse.blobUrls[1].data = parse.file.picture.image
        ELSE /\ parse.metadata.cover = NULL
             /\ parse.blobUrls = <<>>

\* a picture with a UTF-16 description, whose bytes hold single zero bytes and
\* an unaligned pair of them before the terminator, has been extracted
C32_Utf16PictureRead ==
    /\ parse.pc = "returned"
    /\ parse.file.picture # NO_FRAME
    /\ parse.file.picture.encoding = 1
    /\ parse.file.picture.description = <<255, 254, 65, 0, 66, 0>>
    /\ parse.metadata.cover = NEW_BLOB_URL
    /\ SubSeq(parse.blobUrls[1].data, 1, 4) = <<137, 80, 78, 71>>

\* the bytes handed to parseID3v2 are shorter than a tag header, do not start
\* with "ID3", or carry a major version other than 2, 3 and 4
headerRefused ==
    LET bytes == tagBytes(parse.file)
    IN  \/ Len(bytes) < 10
        \/ <<bytes[1], bytes[2], bytes[3]>> # <<73, 68, 51>>
        \/ bytes[4] \notin {2, 3, 4}

\* C33: extractMetadata never throws to its caller: a buffer shorter than the
\* tag header, without the magic "ID3" or with an unsupported major version
\* gives all-default metadata at once, with no frame walked, and an exception
\* raised while parsing is caught and gives all-default metadata as well.
C33_DefaultsOnBadInput ==
    /\ parse.pc \in {"called", "frames", "returned", "caught", "parseBuffer"}
    /\ parse.pc = "caught" => parse.metadata = DEFAULT_METADATA
    /\ "file" \in DOMAIN parse /\ parse.pc \in {"frames", "returned"} /\ headerRefused =>
          /\ parse.pc = "returned"
          /\ parse.metadata = DEFAULT_METADATA
          /\ parse.frames = <<>>
          /\ parse.offset = 0

\* a version 5 tag with a title frame has been refused
C33_Version5Refused ==
    /\ parse.pc = "returned"
    /\ "file" \in DOMAIN parse
    /\ parse.file.magic = <<73, 68, 51>>
    /\ parse.file.majorVersion = 5
    /\ parse.file.dropped = 0
    /\ parse.metadata = DEFAULT_METADATA

\* an exception after the title frame was read has been caught
C33_ExceptionCaught ==
    /\ parse.pc = "caught"
    /\ "file" \in DOMAIN parse
    /\ Len(parse.frames) = 1
    /\ parse.metadata = DEFAULT_METADATA

\* C34: with no valid existing cover, extractCover follows the size tiers: a
\* picture of at most 500 KB is taken as it is; one of more than 500 KB and at
\* most 2 MB is replaced by the result of the compressor where compression
\* succeeds and taken as it is otherwise; one of more than 2 MB and at most
\* 5 MB is taken only as a compressed image and otherwise rejected; one of more
\* than 5 MB is always rejected; a rejection returns null or the previous
\* cover value, and the other fields of the file are extracted all the same.
C34_SizeTiers ==
    /\ parse.pc = "returned"
    /\ "tags" \in DOMAIN parse
    /\ parse.tags.pictures # <<>>
    /\ parse.existingCover \in {UNDEFINED, NULL, COVER_BLOB}
    => LET size == parse.tags.pictures[1].dataLength
           previous == IF parse.existingCover = COVER_BLOB THEN COVER_BLOB ELSE NULL
           cover == parse.metadata.cover
       IN  /\ size <= 512000 => cover = COVER_NEW
           /\ size > 512000 /\ size <= 2097152 =>
                 cover = IF parse.compressed # NULL THEN parse.compressed ELSE COVER_NEW
           /\ size > 2097152 /\ size <= 5242880 =>
                 cover = IF parse.compressed # NULL THEN parse.compressed ELSE previous
           /\ size > 5242880 => cover = previous
           /\ parse.metadata.title = "Ana"
           /\ parse.metadata.artist = "Bo"
           /\ parse.metadata.album = "Lp"
           /\ parse.metadata.lyrics = "la la"

\* a picture of one byte more than 2 MB that could not be compressed has been
\* rejected, and the file's other fields have been extracted
C34_LargePictureRejected ==
    /\ parse.pc = "returned"
    /\ "tags" \in DOMAIN parse
    /\ parse.tags.pictures # <<>>
    /\ parse.tags.pictures[1].dataLength = 2097153
    /\ parse.existingCover = NULL
    /\ parse.compressed = NULL
    /\ parse.metadata.cover = NULL
    /\ parse.metadata.title = "Ana"

\* C35: once the metadata cache has handled a delete event for a path and no
\* create or modify event for the path has followed (the file is not in the
\* vault), the cache has no entry for the path, also when a re-extraction of
\* it by a create / modify timer or by refreshAllMetadata was in flight at the
\* time of the delete and completes afterwards.
C35_DeletedStaysDeleted ==
    \A path \in VaultFiles : ~inVault(path) => cache[path] = NO_METADATA

\* a save is pending or scheduled to follow: a save timer is set, or a refresh
\* or a re-extraction that ends in scheduleSave is on its way
savePending ==
    \/ saveTimers # <<>>
    \/ refreshes # <<>>
    \/ reextractTimers # <<>>
    \/ reextracting # <<>>

\* a step in which the manager is given new work: a file event, or a call of
\* refreshAllMetadata
newWork ==
    \/ vault' # vault
    \/ Len(reextractTimers') > Len(reextractTimers)
    \/ Len(refreshes') > Len(refreshes)

\* C36: whenever the dirty flag is true, a save is pending or scheduled to
\* follow, and, timers firing and new file events and refreshes coming to an
\* end, the save callback is called and the flag is false again.
C36_DirtyLeadsToSave ==
    /\ [](isDirty => savePending)
    /\ (<>[][~newWork]_vars) => (isDirty ~> (~isDirty /\ saveBurst.saves > 0))

\* C37: whenever no scan is in progress the named sub-playlists agree with the
\* full list: every track of a sub-playlist has a path that is in the full
\* list, and every track of the full list that lies in a subfolder of the
\* music folder is in the sub-playlist of that subfolder; this holds after
\* scans that overlapped while files were added or deleted as well.
C37_SubPlaylistsAgree ==
    scans = <<>> =>
        /\ \A k \in 1..Len(playlists) : \A h \in 1..Len(playlists[k].tracks) :
              inList(fullPlaylist, playlists[k].tracks[h].path)
        /\ \A h \in 1..Len(fullPlaylist) :
              LET folder == subfolderOf(fullPlaylist[h].path, settings.musicFolderPath)
              IN  folder # NULL =>
                      \E k \in 1..Len(playlists) :
                          /\ playlists[k].name = folder
                          /\ inList(playlists[k].tracks, fullPlaylist[h].path)

\* C38: after every completed scan with a configured music folder the current
\* category is "all", "favorite" or the name of a sub-playlist of the new
\* grouping: a sub-playlist that was selected before and still exists stays
\* selected, and another selection that names no existing sub-playlist is
\* replaced by "all".
C38_CategoryRestored ==
    [][(~isBlankFolder(settings.musicFolderPath) /\ ScanCompletes) =>
          /\ \/ currentCategory' \in {"all", "favorite"}
             \/ hasPlaylist(playlists', currentCategory')
          /\ currentCategory \notin {"all", "favorite"} =>
                currentCategory' = IF hasPlaylist(playlists', currentCategory)
                                   THEN currentCategory ELSE "all"]_vars

\* the same with the selection a scan found when it started in the place of
\* the selection before its last step
C38_CategoryOfScanStartRestored ==
    [][(~isBlankFolder(settings.musicFolderPath) /\ ScanCompletes) =>
          LET saved == IF scans' = scans THEN currentCategory
                       ELSE Head(scans).savedCategory
          IN  /\ \/ currentCategory' \in {"all", "favorite"}
                 \/ hasPlaylist(playlists', currentCategory')
              /\ saved \notin {"all", "favorite"} =>
                    currentCategory' = IF hasPlaylist(playlists', saved)
                                       THEN saved ELSE "all"]_vars

\* C39: after MetadataManager.cleanup() and until initializeFromSettings is
\* called again, the cache stays empty and the manager calls the save callback
\* no more, also when a debounced save, the timer of a create / modify event or
\* a refreshAllMetadata was pending or under way when cleanup was called.
C39_QuietAfterCleanup ==
    /\ [](cleanedUp => cache = EmptyMetadataMap)
    /\ [][cleanedUp => ~(SaveTimerFires /\ onSaveNeeded # NULL)]_vars

\* the paths of the tracks of a list
pathsOf(list) == {list[k].path : k \in 1..Len(list)}

\* C40: after the plugin's clearMetadataCache, called while no refresh is in
\* flight, the metadata cache and the persisted settings.metadata are empty and
\* every track of the full list has the default metadata (its name as title,
\* the unknown artist and album, no cover); the tracks of the full list, the
\* favorites, the current category and a current track whose path is in the
\* full list are as they were.
C40_ClearedAndFramed ==
    [][ClearMetadataCache /\ refreshes = <<>> =>
          /\ cache' = EmptyMetadataMap
          /\ settings'.metadata = EmptyMetadataMap
          /\ dataJson' = EmptyMetadataMap
          /\ \A k \in 1..Len(fullPlaylist') :
                /\ fullPlaylist'[k].metadata.title = fileBasename(fullPlaylist'[k].path)
                /\ fullPlaylist'[k].metadata.artist = UNKNOWN_ARTIST
                /\ fullPlaylist'[k].metadata.album = UNKNOWN_ALBUM
                /\ fullPlaylist'[k].metadata.cover = NULL
          /\ Len(fullPlaylist') = Len(fullPlaylist)
          /\ \A k \in 1..Len(fullPlaylist) : fullPlaylist'[k].path = fullPlaylist[k].path
          /\ settings'.favorites = settings.favorites
          /\ currentCategory' = currentCategory
          /\ (currentTrack # NO_TRACK /\ currentTrack.path \in pathsOf(fullPlaylist))
                => (currentTrack' # NO_TRACK /\ currentTrack'.path = currentTrack.path)]_vars

\* the cache was cleared while it was dirty and held entries, a favorite and a
\* sub-playlist were selected and the current track had a cover
C40_ClearedLibrary ==
    /\ cache = EmptyMetadataMap
    /\ settings.metadata = EmptyMetadataMap
    /\ isInitialized /\ totalTracks = 0
    /\ isDirty
    /\ refreshes = <<>>
    /\ settings.favorites # <<>>
    /\ currentCategory = "A"
    /\ fullPlaylist # <<>>
    /\ \A k \in 1..Len(fullPlaylist) : fullPlaylist[k].metadata = clearedMetadata(fullPlaylist[k])
    /\ currentTrack # NO_TRACK
    /\ currentTrack.path = F1
    /\ currentTrack.metadata.cover = NULL
    /\ dataJson = EmptyMetadataMap

====
